---- MODULE Spec2Model ----
(***************************************************************************)
(* Metadata journaling for VSFS: the write-ahead log of journal_create and *)
(* the replay of journal_install, over a disk image of fixed-size blocks.  *)
(*                                                                         *)
(* A block's 4096 bytes are kept as the structure the code overlays on it  *)
(* (bitmap bits, 32 inodes, 128 directory entries); a name buffer is the   *)
(* bytes before its first NUL.  The journal is its header plus the records *)
(* stored at byte offsets of the journal region.                           *)
(***************************************************************************)
EXTENDS Integers, Sequences, FiniteSets, TLC

(* ------------------------------ constants ------------------------------ *)

BLOCK_SIZE == 4096
TOTAL_BLOCKS == 85
JOURNAL_BLOCKS == 16
MAX_INODES == 64
INODES_PER_BLOCK == 32
MAX_DIRENTS == 128
JOURNAL_MAGIC == 1246908748
REC_DATA == 1
REC_COMMIT == 2
INODE_FREE == 0
INODE_FILE == 1
INODE_DIR == 2
NameMax == 27
NameBuf == 28
PendingMax == 16
U16 == 65536

SizeofJournalHeader == 8
SizeofRecHeader == 4
SizeofDataRecord == SizeofRecHeader + 4 + BLOCK_SIZE
SizeofCommitRecord == SizeofRecHeader
SizeofDirent == 4 + NameBuf

(* uint32_t arithmetic.  A 32-bit word is kept as the integer with the     *)
(* same two's-complement bit pattern (words below 2^31 are themselves),    *)
(* and is worked on through its 16-bit halves.                             *)
Lo16(x) == x % U16
Hi16(x) == ((x - Lo16(x)) \div U16) % U16
Word(hi, lo) == (IF hi >= U16 \div 2 THEN hi - U16 ELSE hi) * U16 + lo
U32Add(a, b) ==
    LET lo == Lo16(a) + Lo16(b)
        hi == Hi16(a) + Hi16(b) + (lo \div U16)
    IN Word(hi % U16, lo % U16)
U32Lt(a, b) ==
    \/ Hi16(a) < Hi16(b)
    \/ Hi16(a) = Hi16(b) /\ Lo16(a) < Lo16(b)
U32Gt(a, b) == U32Lt(b, a)
U32Le(a, b) == ~U32Lt(b, a)

(* Superblock fields as the formatter lays the image out: block 0 is the   *)
(* superblock, then the 16 journal blocks, the two bitmaps, two inode      *)
(* table blocks and the data region, whose first block is the root         *)
(* directory.                                                              *)
sb ==
    [journal_block |-> 1, inode_bitmap |-> 17, data_bitmap |-> 18,
     inode_start |-> 19, data_start |-> 21]

(* ------------------------------- bounds -------------------------------- *)

MaxCmds == 3
MaxOps == 2
MaxPrefill == 4
MaxCrashes == 1
HistLen == 3
MaxRecs == 4
MaxIOCmds == 2
MaxInstalls == 2
MaxRun == 17
MaxAllocCmds == 2
MaxSpanCmds == 2
MaxScanRecs == 3
MaxScanCmds == 2

(* ------------------------------- names --------------------------------- *)

NameEmpty == <<>>
NameDot == <<46>>
NameDotDot == <<46, 46>>
NameF1 == <<102, 49, 46, 116, 120, 116>>
NameF2 == <<102, 50, 46, 116, 120, 116>>
Name27 == [i \in 1..27 |-> 96 + i]
Name28 == [i \in 1..28 |-> 96 + i]
Names == {NameEmpty, NameF1, NameF2, Name27, Name28}
(* the names given to the commands that run one write at a time *)
StepNames == {NameF1, NameF2, Name28}

(* f<i>.txt, the name of the i-th create of a run of creates *)
FName(i) == <<102, 48 + i, 46, 116, 120, 116>>

(* name of the i-th file already present in a populated image *)
PName(i) == <<112, 48 + (i \div 10), 48 + (i % 10)>>

(* --------------------------- block contents ---------------------------- *)

InodeIdx == 0..(MAX_INODES - 1)
SlotIdx == 0..(MAX_DIRENTS - 1)

Inode(type, links, size, direct, ctime, mtime) ==
    [type |-> type, links |-> links, size |-> size, direct |-> direct,
     ctime |-> ctime, mtime |-> mtime]

NoDirect == [i \in 0..7 |-> 0]
FreeInode == Inode(INODE_FREE, 0, 0, NoDirect, 0, 0)
NewFileInode(now) == Inode(INODE_FILE, 1, 0, NoDirect, now, now)

Dirent(inode, name) == [inode |-> inode, name |-> name]
EmptyDirent == Dirent(0, <<>>)

(* An array inside a block is kept as the map of its elements that are not *)
(* all zero bytes.                                                         *)
Get(m, i, zero) == IF i \in DOMAIN m THEN m[i] ELSE zero
Put(m, i, v, zero) ==
    [k \in (IF v = zero THEN DOMAIN m \ {i} ELSE DOMAIN m \cup {i}) |->
        IF k = i THEN v ELSE m[k]]

InodeAt(ino, i) == Get(ino, i, FreeInode)
DirentAt(ents, i) == Get(ents, i, EmptyDirent)

BitmapBlock(bits) == [kind |-> "bitmap", bits |-> bits]
InodeBlock(ino) == [kind |-> "inodes", ino |-> ino]
DirBlock(ents) == [kind |-> "dir", ents |-> ents]
RawBlock(id) == [kind |-> "raw", id |-> id]

(* ------------------------- the formatted image ------------------------- *)

(* The image after the formatter and n create+install pairs of PName(1..n):*)
(* file i holds inode i and directory slot i + 1.                          *)
RootInode(n) ==
    Inode(INODE_DIR, 2, (n + 2) * SizeofDirent,
          [i \in 0..7 |-> IF i = 0 THEN sb.data_start ELSE 0], 0, 0)

ImageInode(n, i) ==
    IF i = 0 THEN RootInode(n)
    ELSE IF i <= n THEN NewFileInode(0)
    ELSE FreeInode

ImageDirent(n, s) ==
    IF s = 0 THEN Dirent(0, NameDot)
    ELSE IF s = 1 THEN Dirent(0, NameDotDot)
    ELSE IF s <= n + 1 THEN Dirent(s - 1, PName(s - 1))
    ELSE EmptyDirent

NonJournalBlocks ==
    {b \in 0..(TOTAL_BLOCKS - 1) :
        b < sb.journal_block \/ b >= sb.journal_block + JOURNAL_BLOCKS}

Image(n) ==
    [b \in NonJournalBlocks |->
        IF b = sb.inode_bitmap THEN BitmapBlock(0..n)
        ELSE IF b = sb.inode_start
            THEN InodeBlock([k \in {i \in 0..(INODES_PER_BLOCK - 1) :
                                        ImageInode(n, i) # FreeInode} |->
                                ImageInode(n, k)])
        ELSE IF b = sb.inode_start + 1
            THEN InodeBlock([k \in {i \in 0..(INODES_PER_BLOCK - 1) :
                                        ImageInode(n, i + INODES_PER_BLOCK) # FreeInode} |->
                                ImageInode(n, k + INODES_PER_BLOCK)])
        ELSE IF b = sb.data_start
            THEN DirBlock([k \in {s \in SlotIdx : ImageDirent(n, s) # EmptyDirent} |->
                              ImageDirent(n, k)])
        ELSE RawBlock(0)]

(* An image not produced by this program: every directory slot occupied    *)
(* (the entries past the first file are further links to inode 1).         *)
DirFullDirent(s) == IF s <= 2 THEN ImageDirent(1, s) ELSE Dirent(1, PName(s - 1))
DirFullImage ==
    [Image(1) EXCEPT ![sb.data_start] =
        DirBlock([k \in SlotIdx |-> DirFullDirent(k)])]

(* ------------------------------ allocator ------------------------------ *)

(* bitmap[i] == 0xFF *)
ByteIsFF(bits, i) == \A j \in 0..7 : (i * 8 + j) \in bits

(* (bitmap[idx / 8] & (1 << (idx % 8))) == 0 *)
BitClear(bits, idx) == idx \notin bits

SetMin(S) == CHOOSE x \in S : \A y \in S : x <= y
SetMax(S) == CHOOSE x \in S : \A y \in S : x >= y

(* mutant: index 0 is not stepped over *)
find_free_inode_from_0(bits) ==
    LET hits == {idx \in 0..(MAX_INODES - 1) :
                    ~ByteIsFF(bits, idx \div 8) /\ BitClear(bits, idx)}
    IN IF hits = {} THEN -1 ELSE SetMin(hits)

(* the first idx = i * 8 + j, in loop order, that the loops return: byte i *)
(* is not 0xFF, idx is not 0 and bit j of byte i is clear                  *)
find_free_inode(bits) ==
    LET hits == {idx \in 0..(MAX_INODES - 1) :
                    /\ ~ByteIsFF(bits, idx \div 8)
                    /\ idx # 0
                    /\ BitClear(bits, idx)}
    IN IF hits = {} THEN -1 ELSE SetMin(hits)

set_bit(bits, idx) == bits \cup {idx}

(* strcmp(a, b) == 0 on NUL-terminated buffers *)
StrEq(a, b) == a = b

(* dirents[i].name[0] != '\0' *)
Occupied(dirents, i) == DirentAt(dirents, i).name # <<>>

(* mutant: a directory without an empty slot is full whatever its names *)
find_free_dirent_full_first(dirents, filename) ==
    LET same == {i \in 0..(MAX_DIRENTS - 1) :
                    Occupied(dirents, i) /\ StrEq(DirentAt(dirents, i).name, filename)}
        empty == {i \in 0..(MAX_DIRENTS - 1) : ~Occupied(dirents, i)}
    IN IF empty = {} THEN [result |-> -2, slot |-> -1]
       ELSE IF same # {} THEN [result |-> -1, slot |-> -1]
       ELSE [result |-> 0, slot |-> SetMin(empty)]

(* one pass over the slots: -1 at the first occupied slot of that name,    *)
(* else the first empty slot, else -2                                      *)
find_free_dirent(dirents, filename) ==
    LET same == {i \in 0..(MAX_DIRENTS - 1) :
                    Occupied(dirents, i) /\ StrEq(DirentAt(dirents, i).name, filename)}
        empty == {i \in 0..(MAX_DIRENTS - 1) : ~Occupied(dirents, i)}
        before(n) == {i \in empty : i < n}
    IN IF same # {}
          THEN [result |-> -1,
                slot |-> IF before(SetMin(same)) = {} THEN -1
                         ELSE SetMin(before(SetMin(same)))]
       ELSE IF empty # {} THEN [result |-> 0, slot |-> SetMin(empty)]
       ELSE [result |-> -2, slot |-> -1]

(* journal copy.c: for (i = 1; i < MAX_INODES; i++), leaving at the first  *)
(* clear bit.  The iterations lo .. hi - 1 are run in order, the first     *)
(* half before the second; free_inode is -1 until the loop has left.       *)
inode_step_copy(bits, i, free_inode) ==
    IF free_inode # -1 THEN free_inode
    ELSE IF BitClear(bits, i) THEN i
    ELSE -1

RECURSIVE inode_loop_copy(_, _, _, _)
inode_loop_copy(bits, lo, hi, free_inode) ==
    IF hi <= lo THEN free_inode
    ELSE IF hi = lo + 1 THEN inode_step_copy(bits, lo, free_inode)
    ELSE LET mid == (lo + hi) \div 2
             half == inode_loop_copy(bits, lo, mid, free_inode)
         IN IF half # -1 THEN half
            ELSE inode_loop_copy(bits, mid, hi, half)

find_free_inode_copy(bits) == inode_loop_copy(bits, 1, MAX_INODES, -1)

(* journal copy.c: the loop over the slots inside journal_create; it       *)
(* returns at the first occupied slot of that name and keeps the first     *)
(* empty slot in free_dirent                                               *)
dirent_step_copy(dirents, filename, i, st) ==
    IF st.result = -1 THEN st
    ELSE IF Occupied(dirents, i)
        THEN IF StrEq(DirentAt(dirents, i).name, filename)
                THEN [st EXCEPT !.result = -1]
                ELSE st
    ELSE IF st.slot = -1 THEN [st EXCEPT !.slot = i]
    ELSE st

RECURSIVE dirent_loop_copy(_, _, _, _, _)
dirent_loop_copy(dirents, filename, lo, hi, st) ==
    IF hi <= lo THEN st
    ELSE IF hi = lo + 1 THEN dirent_step_copy(dirents, filename, lo, st)
    ELSE LET mid == (lo + hi) \div 2
             half == dirent_loop_copy(dirents, filename, lo, mid, st)
         IN IF half.result = -1 THEN half
            ELSE dirent_loop_copy(dirents, filename, mid, hi, half)

find_free_dirent_copy(dirents, filename) ==
    LET st == dirent_loop_copy(dirents, filename, 0, MAX_DIRENTS,
                               [result |-> 0, slot |-> -1])
    IN IF st.result = -1 THEN st
       ELSE IF st.slot = -1 THEN [result |-> -2, slot |-> -1]
       ELSE st

get_highest_dirent(dirents) ==
    LET used == {i \in 0..(MAX_DIRENTS - 1) : Occupied(dirents, i)}
    IN IF used = {} THEN -1 ELSE SetMax(used)

(* memset(name, 0, 28); strncpy(name, filename, n): the bytes of the       *)
(* buffer before its first NUL                                             *)
Strncpy(filename, n) ==
    SubSeq(filename, 1, IF Len(filename) < n THEN Len(filename) ELSE n)

(* ------------------------------ the journal ---------------------------- *)

DataRec(block_no, data) ==
    [type |-> REC_DATA, size |-> SizeofDataRecord, block_no |-> block_no,
     data |-> data, torn |-> FALSE]
CommitRec == [type |-> REC_COMMIT, size |-> SizeofCommitRecord]
ZeroRec == [type |-> 0, size |-> 0]

(* bytes of the record area a stored record accounts for *)
RecExtent(rec) ==
    IF rec.type = REC_DATA THEN SizeofDataRecord ELSE SizeofRecHeader

JournalWrite(off, len, rec) == [kind |-> "rec", off |-> off, len |-> len, rec |-> rec]
HeaderWrite(magic, used) == [kind |-> "hdr", magic |-> magic, used |-> used]
BlockWrite(block_no, data, src) ==
    [kind |-> "blk", block_no |-> block_no, data |-> data, src |-> src]

(* write_journal(off, rec, len) on the record area: the record lands at    *)
(* off, a header that lay inside the written range is gone, and a data     *)
(* record that began before off and reached into the range is torn.        *)
write_journal(area, off, len, rec) ==
    LET keep == {o \in DOMAIN area : o < off \/ o >= off + len}
    IN [o \in keep \cup {off} |->
          IF o = off THEN rec
          ELSE IF o < off /\ o + RecExtent(area[o]) > off
                    /\ area[o].type = REC_DATA
              THEN [area[o] EXCEPT !.torn = TRUE]
          ELSE area[o]]

(* the record header found at off: unwritten journal bytes are zero *)
RecAt(area, off) == IF off \in DOMAIN area THEN area[off] ELSE ZeroRec

write_block(d, block_no, data) == [d EXCEPT ![block_no] = data]

(* ---------------------------- journal_create -------------------------- *)

(* mutant: the bound is taken from the size of the name buffer *)
NameTooLong_buffer_size(filename) == Len(filename) > NameBuf

(* strlen(filename) > 27 *)
NameTooLong(filename) == Len(filename) > NameMax

(* the header create works on: a header without the magic is initialised  *)
(* in memory only                                                          *)
CreateHeader(magic, used) ==
    IF magic # JOURNAL_MAGIC
        THEN [magic |-> JOURNAL_MAGIC, nbytes_used |-> SizeofJournalHeader]
        ELSE [magic |-> magic, nbytes_used |-> used]

SpaceAvailable == JOURNAL_BLOCKS * BLOCK_SIZE
SpaceNeeded == 4 * SizeofDataRecord + SizeofCommitRecord

(* mutant: the log is never found full *)
JournalFull_never(nbytes_used) == FALSE

(* jh.nbytes_used + space_needed > space_available, in uint32_t *)
JournalFull(nbytes_used) ==
    U32Gt(U32Add(nbytes_used, SpaceNeeded), SpaceAvailable)

(* mutant: the header initialised in memory is written back on failure *)
CreateFail_header_written(status) ==
    [status |-> status, inode |-> -1, slot |-> -1,
     writes |-> <<HeaderWrite(JOURNAL_MAGIC, SizeofJournalHeader)>>]

CreateFail(status) ==
    [status |-> status, inode |-> -1, slot |-> -1, writes |-> <<>>]

(* mutant: the type of the new inode is not filled in *)
FileInode_type_left(old, now) ==
    [old EXCEPT !.links = 1, !.size = 0,
                !.direct = NoDirect, !.ctime = now, !.mtime = now]

(* the blocks as updated in memory *)
FileInode(old, now) ==
    [old EXCEPT !.type = INODE_FILE, !.links = 1, !.size = 0,
                !.direct = NoDirect, !.ctime = now, !.mtime = now]

NewInodes0(inodes0, free_inode, now) ==
    IF free_inode >= INODES_PER_BLOCK THEN inodes0
    ELSE Put(inodes0, free_inode,
             FileInode(InodeAt(inodes0, free_inode), now), FreeInode)

NewInodes1(inodes1, free_inode, now) ==
    IF free_inode >= INODES_PER_BLOCK
        THEN Put(inodes1, free_inode - INODES_PER_BLOCK,
                 FileInode(InodeAt(inodes1, free_inode - INODES_PER_BLOCK), now),
                 FreeInode)
        ELSE inodes1

NewDirents(dirents, free_slot, free_inode, filename) ==
    Put(dirents, free_slot, Dirent(free_inode, Strncpy(filename, NameMax)),
        EmptyDirent)

(* mutant: the size counts the occupied entries *)
RootSized_count(inodes0, dirents) ==
    LET n == Cardinality({i \in 0..(MAX_DIRENTS - 1) : Occupied(dirents, i)})
    IN IF n > 0
          THEN Put(inodes0, 0,
                   [InodeAt(inodes0, 0) EXCEPT !.size = n * SizeofDirent],
                   FreeInode)
          ELSE inodes0

RootSized(inodes0, dirents) ==
    LET highest == get_highest_dirent(dirents)
    IN IF highest >= 0
          THEN Put(inodes0, 0,
                   [InodeAt(inodes0, 0) EXCEPT
                       !.size = (highest + 1) * SizeofDirent], FreeInode)
          ELSE inodes0

(* mutant: the header is advanced before the commit record is written *)
CreateWrites_header_before_commit(jh, in_block1, bitmapBlk, inodeBlk0, inodeBlk1, root_dir_block, dirBlk) ==
    LET o0 == jh.nbytes_used
        o1 == U32Add(o0, SizeofDataRecord)
        ob == U32Add(o1, SizeofDataRecord)
        o2 == IF in_block1 THEN U32Add(ob, SizeofDataRecord) ELSE ob
        o3 == U32Add(o2, SizeofDataRecord)
        o4 == U32Add(o3, SizeofCommitRecord)
    IN <<JournalWrite(o0, SizeofDataRecord, DataRec(sb.inode_bitmap, bitmapBlk)),
         JournalWrite(o1, SizeofDataRecord, DataRec(sb.inode_start, inodeBlk0))>>
       \o (IF in_block1
             THEN <<JournalWrite(ob, SizeofDataRecord,
                                 DataRec(sb.inode_start + 1, inodeBlk1))>>
             ELSE <<>>)
       \o <<JournalWrite(o2, SizeofDataRecord, DataRec(root_dir_block, dirBlk)),
            HeaderWrite(jh.magic, o4),
            JournalWrite(o3, SizeofCommitRecord, CommitRec)>>

(* mutant: both inode-table blocks are logged whatever inode was taken *)
CreateWrites_both_inode_blocks(jh, in_block1, bitmapBlk, inodeBlk0, inodeBlk1, root_dir_block, dirBlk) ==
    LET o0 == jh.nbytes_used
        o1 == U32Add(o0, SizeofDataRecord)
        ob == U32Add(o1, SizeofDataRecord)
        o2 == U32Add(ob, SizeofDataRecord)
        o3 == U32Add(o2, SizeofDataRecord)
        o4 == U32Add(o3, SizeofCommitRecord)
    IN <<JournalWrite(o0, SizeofDataRecord, DataRec(sb.inode_bitmap, bitmapBlk)),
         JournalWrite(o1, SizeofDataRecord, DataRec(sb.inode_start, inodeBlk0)),
         JournalWrite(ob, SizeofDataRecord, DataRec(sb.inode_start + 1, inodeBlk1)),
         JournalWrite(o2, SizeofDataRecord, DataRec(root_dir_block, dirBlk)),
         JournalWrite(o3, SizeofCommitRecord, CommitRec),
         HeaderWrite(jh.magic, o4)>>

(* mutant: the directory block is also updated in place *)
CreateWrites_dir_in_place(jh, in_block1, bitmapBlk, inodeBlk0, inodeBlk1, root_dir_block, dirBlk) ==
    LET o0 == jh.nbytes_used
        o1 == U32Add(o0, SizeofDataRecord)
        ob == U32Add(o1, SizeofDataRecord)
        o2 == IF in_block1 THEN U32Add(ob, SizeofDataRecord) ELSE ob
        o3 == U32Add(o2, SizeofDataRecord)
        o4 == U32Add(o3, SizeofCommitRecord)
    IN <<JournalWrite(o0, SizeofDataRecord, DataRec(sb.inode_bitmap, bitmapBlk)),
         JournalWrite(o1, SizeofDataRecord, DataRec(sb.inode_start, inodeBlk0))>>
       \o (IF in_block1
             THEN <<JournalWrite(ob, SizeofDataRecord,
                                 DataRec(sb.inode_start + 1, inodeBlk1))>>
             ELSE <<>>)
       \o <<JournalWrite(o2, SizeofDataRecord, DataRec(root_dir_block, dirBlk)),
            BlockWrite(root_dir_block, dirBlk, o2),
            JournalWrite(o3, SizeofCommitRecord, CommitRec),
            HeaderWrite(jh.magic, o4)>>

(* mutant: the bitmap is also updated in place *)
CreateWrites_in_place(jh, in_block1, bitmapBlk, inodeBlk0, inodeBlk1, root_dir_block, dirBlk) ==
    LET o0 == jh.nbytes_used
        o1 == U32Add(o0, SizeofDataRecord)
        ob == U32Add(o1, SizeofDataRecord)
        o2 == IF in_block1 THEN U32Add(ob, SizeofDataRecord) ELSE ob
        o3 == U32Add(o2, SizeofDataRecord)
        o4 == U32Add(o3, SizeofCommitRecord)
    IN <<JournalWrite(o0, SizeofDataRecord, DataRec(sb.inode_bitmap, bitmapBlk)),
         BlockWrite(sb.inode_bitmap, bitmapBlk, o0),
         JournalWrite(o1, SizeofDataRecord, DataRec(sb.inode_start, inodeBlk0))>>
       \o (IF in_block1
             THEN <<JournalWrite(ob, SizeofDataRecord,
                                 DataRec(sb.inode_start + 1, inodeBlk1))>>
             ELSE <<>>)
       \o <<JournalWrite(o2, SizeofDataRecord, DataRec(root_dir_block, dirBlk)),
            JournalWrite(o3, SizeofCommitRecord, CommitRec),
            HeaderWrite(jh.magic, o4)>>

(* mutant: the header is persisted before the records it accounts for *)
CreateWrites_header_first(jh, in_block1, bitmapBlk, inodeBlk0, inodeBlk1, root_dir_block, dirBlk) ==
    LET o0 == jh.nbytes_used
        o1 == U32Add(o0, SizeofDataRecord)
        ob == U32Add(o1, SizeofDataRecord)
        o2 == IF in_block1 THEN U32Add(ob, SizeofDataRecord) ELSE ob
        o3 == U32Add(o2, SizeofDataRecord)
        o4 == U32Add(o3, SizeofCommitRecord)
    IN <<HeaderWrite(jh.magic, o4),
         JournalWrite(o0, SizeofDataRecord, DataRec(sb.inode_bitmap, bitmapBlk)),
         JournalWrite(o1, SizeofDataRecord, DataRec(sb.inode_start, inodeBlk0))>>
       \o (IF in_block1
             THEN <<JournalWrite(ob, SizeofDataRecord,
                                 DataRec(sb.inode_start + 1, inodeBlk1))>>
             ELSE <<>>)
       \o <<JournalWrite(o2, SizeofDataRecord, DataRec(root_dir_block, dirBlk)),
            JournalWrite(o3, SizeofCommitRecord, CommitRec)>>

(* the journal writes of one transaction, in the order they are issued *)
CreateWrites(jh, in_block1, bitmapBlk, inodeBlk0, inodeBlk1, root_dir_block, dirBlk) ==
    LET o0 == jh.nbytes_used
        o1 == U32Add(o0, SizeofDataRecord)
        ob == U32Add(o1, SizeofDataRecord)
        o2 == IF in_block1 THEN U32Add(ob, SizeofDataRecord) ELSE ob
        o3 == U32Add(o2, SizeofDataRecord)
        o4 == U32Add(o3, SizeofCommitRecord)
    IN <<JournalWrite(o0, SizeofDataRecord, DataRec(sb.inode_bitmap, bitmapBlk)),
         JournalWrite(o1, SizeofDataRecord, DataRec(sb.inode_start, inodeBlk0))>>
       \o (IF in_block1
             THEN <<JournalWrite(ob, SizeofDataRecord,
                                 DataRec(sb.inode_start + 1, inodeBlk1))>>
             ELSE <<>>)
       \o <<JournalWrite(o2, SizeofDataRecord, DataRec(root_dir_block, dirBlk)),
            JournalWrite(o3, SizeofCommitRecord, CommitRec),
            HeaderWrite(jh.magic, o4)>>

journal_create(d, magic, used, filename, now) ==
    IF NameTooLong(filename) THEN CreateFail("NameTooLong")
    ELSE
    LET jh == CreateHeader(magic, used) IN
    IF JournalFull(jh.nbytes_used) THEN CreateFail("JournalFull")
    ELSE
    LET inode_bitmap == d[sb.inode_bitmap].bits
        free_inode == find_free_inode(inode_bitmap)
    IN
    IF free_inode = -1 THEN CreateFail("NoFreeInodes")
    ELSE
    LET in_block1 == free_inode >= INODES_PER_BLOCK
        inodes0 == d[sb.inode_start].ino
        inodes1 == d[sb.inode_start + 1].ino
        root_dir_block == InodeAt(inodes0, 0).direct[0]
        dirents == d[root_dir_block].ents
        r == find_free_dirent(dirents, filename)
    IN
    IF r.result = -1 THEN CreateFail("AlreadyExists")
    ELSE IF r.result = -2 \/ r.slot = -1 THEN CreateFail("DirectoryFull")
    ELSE
    LET dirents2 == NewDirents(dirents, r.slot, free_inode, filename)
        inodes0b == RootSized(NewInodes0(inodes0, free_inode, now), dirents2)
        inodes1b == NewInodes1(inodes1, free_inode, now)
    IN [status |-> "ok", inode |-> free_inode, slot |-> r.slot,
        writes |-> CreateWrites(jh, in_block1,
                                BitmapBlock(set_bit(inode_bitmap, free_inode)),
                                InodeBlock(inodes0b), InodeBlock(inodes1b),
                                root_dir_block, DirBlock(dirents2))]

(* journal_create of journal copy.c: the same steps, with its own loops    *)
(* for the free inode and the directory slot                               *)
journal_create_copy(d, magic, used, filename, now) ==
    IF NameTooLong(filename) THEN CreateFail("NameTooLong")
    ELSE
    LET jh == CreateHeader(magic, used) IN
    IF JournalFull(jh.nbytes_used) THEN CreateFail("JournalFull")
    ELSE
    LET inode_bitmap == d[sb.inode_bitmap].bits
        free_inode == find_free_inode_copy(inode_bitmap)
    IN
    IF free_inode = -1 THEN CreateFail("NoFreeInodes")
    ELSE
    LET in_block1 == free_inode >= INODES_PER_BLOCK
        inodes0 == d[sb.inode_start].ino
        inodes1 == d[sb.inode_start + 1].ino
        root_dir_block == InodeAt(inodes0, 0).direct[0]
        dirents == d[root_dir_block].ents
        r == find_free_dirent_copy(dirents, filename)
    IN
    IF r.result = -1 THEN CreateFail("AlreadyExists")
    ELSE IF r.slot = -1 THEN CreateFail("DirectoryFull")
    ELSE
    LET dirents2 == NewDirents(dirents, r.slot, free_inode, filename)
        inodes0b == RootSized(NewInodes0(inodes0, free_inode, now), dirents2)
        inodes1b == NewInodes1(inodes1, free_inode, now)
    IN [status |-> "ok", inode |-> free_inode, slot |-> r.slot,
        writes |-> CreateWrites(jh, in_block1,
                                BitmapBlock(set_bit(inode_bitmap, free_inode)),
                                InodeBlock(inodes0b), InodeBlock(inodes1b),
                                root_dir_block, DirBlock(dirents2))]

(* ---------------------------- journal_install ------------------------- *)

(* what lies in memory behind the malloc'ed buffer: a block number and a   *)
(* block of bytes the log never held                                       *)
HeapBytes ==
    {[block_no |-> sb.inode_bitmap, data |-> RawBlock(8)],
     [block_no |-> sb.data_start, data |-> RawBlock(9)]}

(* the data records that begin inside the first nbytes_used bytes and end  *)
(* behind them                                                             *)
Straddling(area, nbytes_used) ==
    {o \in DOMAIN area :
        /\ area[o].type = REC_DATA
        /\ U32Lt(o, nbytes_used)
        /\ U32Gt(U32Add(o, SizeofDataRecord), nbytes_used)}

(* the memory a run of install may find behind its buffer *)
HeapFor(area, nbytes_used) ==
    IF Straddling(area, nbytes_used) = {} THEN {CHOOSE h \in HeapBytes : TRUE}
    ELSE HeapBytes

(* journal_data after read_journal(0, journal_data, jh.nbytes_used): the   *)
(* first nbytes_used bytes of the journal; struct fields overlaid behind   *)
(* the end of the buffer are whatever the heap holds there                 *)
journal_data(area, nbytes_used, heap) ==
    [o \in {x \in DOMAIN area : U32Lt(x, nbytes_used)} |->
        IF o \in Straddling(area, nbytes_used)
            THEN [area[o] EXCEPT !.block_no = heap.block_no,
                                 !.data = heap.data]
            ELSE area[o]]

ScanResult(writes, transactions, pending, stop) ==
    [writes |-> writes, transactions |-> transactions, pending |-> pending,
     stop |-> stop]

PendingWrite(rec, offset) == BlockWrite(rec.block_no, rec.data, offset)

(* mutant: a record of an unknown type is stepped over *)
RECURSIVE scan_skip_unknown(_, _, _, _, _, _)
scan_skip_unknown(area, nbytes_used, offset, pending, writes, transactions) ==
    IF ~U32Lt(offset, nbytes_used)
        THEN ScanResult(writes, transactions, pending, offset)
    ELSE
    LET rec == RecAt(area, offset) IN
    IF rec.size = 0 THEN ScanResult(writes, transactions, pending, offset)
    ELSE IF U32Gt(U32Add(offset, rec.size), nbytes_used)
        THEN ScanResult(writes, transactions, pending, offset)
    ELSE IF rec.type = REC_DATA
        THEN scan_skip_unknown(area, nbytes_used, U32Add(offset, SizeofDataRecord),
                  IF Len(pending) < PendingMax
                      THEN Append(pending, PendingWrite(rec, offset))
                      ELSE pending,
                  writes, transactions)
    ELSE IF rec.type = REC_COMMIT
        THEN scan_skip_unknown(area, nbytes_used, U32Add(offset, SizeofCommitRecord),
                  <<>>, writes \o pending, transactions + 1)
    ELSE scan_skip_unknown(area, nbytes_used, U32Add(offset, rec.size),
                           pending, writes, transactions)

(* mutant: the pending-write buffer takes two entries less *)
RECURSIVE scan_buffer_14(_, _, _, _, _, _)
scan_buffer_14(area, nbytes_used, offset, pending, writes, transactions) ==
    IF ~U32Lt(offset, nbytes_used)
        THEN ScanResult(writes, transactions, pending, offset)
    ELSE
    LET rec == RecAt(area, offset) IN
    IF rec.size = 0 THEN ScanResult(writes, transactions, pending, offset)
    ELSE IF U32Gt(U32Add(offset, rec.size), nbytes_used)
        THEN ScanResult(writes, transactions, pending, offset)
    ELSE IF rec.type = REC_DATA
        THEN scan_buffer_14(area, nbytes_used, U32Add(offset, SizeofDataRecord),
                  IF Len(pending) < PendingMax - 2
                      THEN Append(pending, PendingWrite(rec, offset))
                      ELSE pending,
                  writes, transactions)
    ELSE IF rec.type = REC_COMMIT
        THEN scan_buffer_14(area, nbytes_used, U32Add(offset, SizeofCommitRecord),
                  <<>>, writes \o pending, transactions + 1)
    ELSE ScanResult(writes, transactions, pending, offset)

(* the while loop over the used region read into journal_data *)
RECURSIVE scan(_, _, _, _, _, _)
scan(area, nbytes_used, offset, pending, writes, transactions) ==
    IF ~U32Lt(offset, nbytes_used)
        THEN ScanResult(writes, transactions, pending, offset)
    ELSE
    LET rec == RecAt(area, offset) IN
    IF rec.size = 0 THEN ScanResult(writes, transactions, pending, offset)
    ELSE IF U32Gt(U32Add(offset, rec.size), nbytes_used)
        THEN ScanResult(writes, transactions, pending, offset)
    ELSE IF rec.type = REC_DATA
        THEN scan(area, nbytes_used, U32Add(offset, SizeofDataRecord),
                  IF Len(pending) < PendingMax
                      THEN Append(pending, PendingWrite(rec, offset))
                      ELSE pending,
                  writes, transactions)
    ELSE IF rec.type = REC_COMMIT
        THEN scan(area, nbytes_used, U32Add(offset, SizeofCommitRecord),
                  <<>>, writes \o pending, transactions + 1)
    ELSE ScanResult(writes, transactions, pending, offset)

InstallResult(transactions, writes) ==
    [status |-> "ok", transactions |-> transactions, writes |-> writes]

(* mutant: the header is reset before the transactions are applied *)
journal_install_reset_first(magic, used, area) ==
    IF magic # JOURNAL_MAGIC THEN InstallResult(0, <<>>)
    ELSE IF U32Le(used, SizeofJournalHeader) THEN InstallResult(0, <<>>)
    ELSE
    LET s == scan(area, used, SizeofJournalHeader, <<>>, <<>>, 0)
    IN InstallResult(s.transactions,
                     <<HeaderWrite(magic, SizeofJournalHeader)>> \o s.writes)

(* mutant: the header is left as it was once the transactions are applied *)
journal_install_noreset(magic, used, area) ==
    IF magic # JOURNAL_MAGIC THEN InstallResult(0, <<>>)
    ELSE IF U32Le(used, SizeofJournalHeader) THEN InstallResult(0, <<>>)
    ELSE
    LET s == scan(area, used, SizeofJournalHeader, <<>>, <<>>, 0)
    IN InstallResult(s.transactions, s.writes)

(* mutant: the writes still buffered when the scan ends are applied too *)
journal_install_flush(magic, used, area) ==
    IF magic # JOURNAL_MAGIC THEN InstallResult(0, <<>>)
    ELSE IF U32Le(used, SizeofJournalHeader) THEN InstallResult(0, <<>>)
    ELSE
    LET s == scan(area, used, SizeofJournalHeader, <<>>, <<>>, 0)
    IN InstallResult(s.transactions,
                     s.writes \o s.pending
                         \o <<HeaderWrite(magic, SizeofJournalHeader)>>)

journal_install(magic, used, area) ==
    IF magic # JOURNAL_MAGIC THEN InstallResult(0, <<>>)
    ELSE IF U32Le(used, SizeofJournalHeader) THEN InstallResult(0, <<>>)
    ELSE
    LET s == scan(area, used, SizeofJournalHeader, <<>>, <<>>, 0)
    IN InstallResult(s.transactions,
                     s.writes \o <<HeaderWrite(magic, SizeofJournalHeader)>>)

(* ------------------------------- state -------------------------------- *)

VARIABLES
    disk,    \* the blocks outside the journal region, by block number
    jmagic,  \* journal header: magic
    jused,   \* journal header: nbytes_used
    jarea,   \* journal record area: byte offset -> record stored there
    pc,      \* the command in progress: "idle", "create" or "install"
    wq,      \* the writes the command in progress has still to issue
    cur,     \* what the command in progress will report
    pre,     \* the image when the command in progress (or crashed) started
    last,    \* what the last finished command reported
    hist,    \* the reports of the latest commands (whole-command runs)
    nops,    \* commands started
    crashes, \* crashes so far
    img,     \* which image the run started from
    given,   \* the log a run started from: its header and, for a log laid
             \* out record by record, its records
    prog,    \* the program the commands of the run are run with
    sc       \* the scan loop of the install in progress: its offset, its
             \* pending writes, the transactions counted

vars ==
    <<disk, jmagic, jused, jarea, pc, wq, cur, pre, last, hist, nops,
      crashes, img, given, prog, sc>>

EmptyArea == [o \in {} |-> ZeroRec]

ScanAt(offset, pending, transactions, heap) ==
    [offset |-> offset, pending |-> pending, transactions |-> transactions,
     heap |-> heap]
NoScan == ScanAt(0, <<>>, 0, CHOOSE h \in HeapBytes : TRUE)

Report(op, status, name, inode, slot, transactions, wrote, logEmpty, wasFree) ==
    [op |-> op, status |-> status, name |-> name, inode |-> inode,
     slot |-> slot, transactions |-> transactions, wrote |-> wrote,
     logEmpty |-> logEmpty, wasFree |-> wasFree]
NoReport == Report("none", "none", <<>>, -1, -1, 0, 0, FALSE, FALSE)

Snap(d, magic, used, area) ==
    [disk |-> d, jmagic |-> magic, jused |-> used, jarea |-> area]
Snapshot == Snap(disk, jmagic, jused, jarea)
NoPre == Snap(<<>>, 0, 0, <<>>)

(* one write reaches the image *)
ApplyWrite(im, w) ==
    IF w.kind = "rec"
        THEN [im EXCEPT !.jarea = write_journal(im.jarea, w.off, w.len, w.rec)]
    ELSE IF w.kind = "hdr"
        THEN [im EXCEPT !.jmagic = w.magic, !.jused = w.used]
    ELSE [im EXCEPT !.disk = write_block(im.disk, w.block_no, w.data)]

RECURSIVE ApplyAll(_, _)
ApplyAll(im, ws) ==
    IF ws = <<>> THEN im ELSE ApplyAll(ApplyWrite(im, Head(ws)), Tail(ws))

SetImage(im) ==
    /\ disk' = im.disk
    /\ jmagic' = im.jmagic
    /\ jused' = im.jused
    /\ jarea' = im.jarea

(* time(NULL): the clock has moved on with every command *)
Now == 1000 + nops

(* the log holds nothing to install *)
LogEmpty(magic, used) == magic # JOURNAL_MAGIC \/ used = SizeofJournalHeader

CreateReport(filename, r) ==
    Report("create", r.status, filename, r.inode, r.slot, 0, 0,
           LogEmpty(jmagic, jused),
           r.inode > 0 /\ BitClear(disk[sb.inode_bitmap].bits, r.inode))

InstallReport(r) ==
    Report("install", r.status, <<>>, -1, -1, r.transactions, 0,
           LogEmpty(jmagic, jused), FALSE)

Images ==
    [fresh |-> Image(0), half |-> Image(31), last1 |-> Image(62),
     dirfull |-> DirFullImage]

(* the image after n further create commands, of f1.txt, f2.txt, ..., none *)
(* installed                                                               *)
RECURSIVE Prefilled(_, _)
Prefilled(im, n) ==
    IF n = 0 THEN im
    ELSE LET p == Prefilled(im, n - 1)
         IN ApplyAll(p, journal_create(p.disk, p.jmagic, p.jused, FName(n),
                                       900 + n).writes)

(* a run starts from a formatted image, its journal region still zero or   *)
(* holding an empty log, or from that image with transactions logged       *)
InitImage ==
    /\ img \in DOMAIN Images
    /\ \E magic \in {0, JOURNAL_MAGIC} :
       \E n \in 0..MaxPrefill :
          /\ magic = 0 => img = "fresh"
          /\ LET im == Prefilled(Snap(Images[img], magic,
                                      IF magic = 0 THEN 0 ELSE SizeofJournalHeader,
                                      EmptyArea), n)
             IN /\ disk = im.disk
                /\ jmagic = im.jmagic
                /\ jused = im.jused
                /\ jarea = im.jarea

InitRest ==
    /\ pc = "idle"
    /\ wq = <<>>
    /\ cur = NoReport
    /\ pre = NoPre
    /\ last = NoReport
    /\ hist = <<>>
    /\ nops = 0
    /\ crashes = 0
    /\ sc = NoScan

Constructed(recs, magic, used) == [recs |-> recs, magic |-> magic, used |-> used]
NoLog == Constructed(<<>>, 0, 0)

Init ==
    /\ InitImage
    /\ InitRest
    /\ given = Constructed(<<>>, jmagic, jused)
    /\ prog = "part_001"

(* ------------------- commands, one write at a time --------------------- *)

Finish(report) ==
    /\ pc' = "idle"
    /\ wq' = <<>>
    /\ cur' = NoReport
    /\ last' = report

(* ./journal create <filename>: the checks and the in-memory transaction *)
CreateBegin(filename) ==
    /\ pc = "idle"
    /\ nops < MaxOps
    /\ nops' = nops + 1
    /\ LET r == journal_create(disk, jmagic, jused, filename, Now)
       IN IF r.status = "ok"
             THEN /\ pc' = "create"
                  /\ wq' = r.writes
                  /\ cur' = CreateReport(filename, r)
                  /\ pre' = Snapshot
                  /\ UNCHANGED last
             ELSE Finish(CreateReport(filename, r)) /\ pre' = NoPre
    /\ UNCHANGED <<disk, jmagic, jused, jarea, hist, crashes, img, given, prog, sc>>

(* ./journal install: header checks and the scan of the used region *)
InstallBegin ==
    /\ pc = "idle"
    /\ nops < MaxOps
    /\ nops' = nops + 1
    /\ \E heap \in HeapFor(jarea, jused) :
       LET r == journal_install(jmagic, jused,
                                journal_data(jarea, jused, heap))
       IN IF r.writes # <<>>
             THEN /\ pc' = "install"
                  /\ wq' = r.writes
                  /\ cur' = InstallReport(r)
                  /\ pre' = Snapshot
                  /\ UNCHANGED last
             ELSE Finish(InstallReport(r)) /\ pre' = NoPre
    /\ UNCHANGED <<disk, jmagic, jused, jarea, hist, crashes, img, given, prog, sc>>

(* the next write_journal of the create in progress; the last one is the  *)
(* header, after which the command reports success                         *)
CreateStep ==
    /\ pc = "create"
    /\ wq # <<>>
    /\ SetImage(ApplyWrite(Snapshot, Head(wq)))
    /\ IF Len(wq) = 1
          THEN Finish([cur EXCEPT !.wrote = @ + 1]) /\ pre' = NoPre
          ELSE /\ wq' = Tail(wq)
               /\ cur' = [cur EXCEPT !.wrote = @ + 1]
               /\ UNCHANGED <<pc, last, pre>>
    /\ UNCHANGED <<hist, nops, crashes, img, given, prog, sc>>

(* the next write_block of the install in progress; the last write is the  *)
(* header reset                                                            *)
InstallStep ==
    /\ pc = "install"
    /\ wq # <<>>
    /\ SetImage(ApplyWrite(Snapshot, Head(wq)))
    /\ IF Len(wq) = 1
          THEN Finish([cur EXCEPT !.wrote = @ + 1]) /\ pre' = NoPre
          ELSE /\ wq' = Tail(wq)
               /\ cur' = [cur EXCEPT !.wrote = @ + 1]
               /\ UNCHANGED <<pc, last, pre>>
    /\ UNCHANGED <<hist, nops, crashes, img, given, prog, sc>>

(* the process dies between two writes; every issued write was flushed *)
Crash ==
    /\ pc # "idle"
    /\ crashes < MaxCrashes
    /\ crashes' = crashes + 1
    /\ Finish([cur EXCEPT !.status = "crashed"])
    /\ UNCHANGED <<disk, jmagic, jused, jarea, pre, hist, nops, img, given, prog, sc>>

Next ==
    \/ \E filename \in StepNames : CreateBegin(filename)
    \/ CreateStep
    \/ InstallBegin
    \/ InstallStep
    \/ Crash

Spec == Init /\ [][Next]_vars

(* --------------------- commands run to completion ---------------------- *)

(* hist keeps the reports of the last HistLen commands *)
Remember(h, report) ==
    LET all == Append(h, report)
    IN IF Len(all) > HistLen THEN Tail(all) ELSE all

CreateCmd(filename) ==
    /\ pc = "idle"
    /\ nops < MaxCmds
    /\ nops' = nops + 1
    /\ LET r == journal_create(disk, jmagic, jused, filename, Now)
       IN /\ SetImage(ApplyAll(Snapshot, r.writes))
          /\ hist' = Remember(hist, [CreateReport(filename, r) EXCEPT
                                      !.wrote = Len(r.writes)])
    /\ UNCHANGED <<pc, wq, cur, pre, last, crashes, img, given, prog, sc>>

InstallCmd ==
    /\ pc = "idle"
    /\ nops < MaxCmds
    /\ nops' = nops + 1
    /\ \E heap \in HeapFor(jarea, jused) :
       LET r == journal_install(jmagic, jused,
                                journal_data(jarea, jused, heap))
       IN /\ SetImage(ApplyAll(Snapshot, r.writes))
          /\ hist' = Remember(hist, [InstallReport(r) EXCEPT
                                      !.wrote = Len(r.writes)])
    /\ UNCHANGED <<pc, wq, cur, pre, last, crashes, img, given, prog, sc>>

NextSeq ==
    \/ \E filename \in Names : CreateCmd(filename)
    \/ InstallCmd

SpecSeq == Init /\ [][NextSeq]_vars

(* -------------------------- constructed logs --------------------------- *)

(* records a log may be laid out from: well-formed data and commit         *)
(* records, a record with an unknown tag and one with length zero          *)
LogBlocks == {sb.inode_bitmap, sb.data_start}
LogData ==
    {DataRec(sb.inode_bitmap, RawBlock(1)), DataRec(sb.inode_bitmap, RawBlock(2)),
     DataRec(sb.data_start, RawBlock(3))}
BadTagRec == [type |-> 3, size |-> SizeofRecHeader]
ZeroLenRec == [DataRec(sb.data_start, RawBlock(4)) EXCEPT !.size = 0]
LogRecs == LogData \cup {CommitRec, BadTagRec, ZeroLenRec}

RECURSIVE SeqsUpTo(_, _)
SeqsUpTo(S, n) ==
    IF n = 0 THEN {<<>>}
    ELSE LET shorter == SeqsUpTo(S, n - 1)
         IN shorter \cup {Append(q, x) : q \in shorter, x \in S}

(* the offset just past the first k records of a log laid out from the     *)
(* start of the record area                                                *)
RECURSIVE EndOf(_, _)
EndOf(recs, k) ==
    IF k = 0 THEN SizeofJournalHeader
    ELSE EndOf(recs, k - 1) + RecExtent(recs[k])

Layout(recs) ==
    [o \in {EndOf(recs, k - 1) : k \in 1..Len(recs)} |->
        recs[CHOOSE k \in 1..Len(recs) : EndOf(recs, k - 1) = o]]

(* where the header's used_bytes may point: past the last record, before  *)
(* it, or just past its record header                                      *)
UsedChoices(recs) ==
    IF recs = <<>> THEN {SizeofJournalHeader}
    ELSE {EndOf(recs, Len(recs)), EndOf(recs, Len(recs) - 1),
          EndOf(recs, Len(recs) - 1) + SizeofRecHeader}

InitLog ==
    /\ img = "fresh"
    /\ disk = Images[img]
    /\ \E recs \in SeqsUpTo(LogRecs, MaxRecs) :
       \E used \in UsedChoices(recs) :
       \E magic \in {JOURNAL_MAGIC, 0} :
          /\ given = Constructed(recs, magic, used)
          /\ jarea = Layout(recs)
          /\ jmagic = magic
          /\ jused = used
    /\ InitRest
    /\ prog = "part_001"

InstallLog ==
    /\ nops < MaxInstalls
    /\ InstallCmd

NextLog == InstallLog

SpecLog == InitLog /\ [][NextLog]_vars

(* a data record whose length field gives the size of its header only *)
ShortLenRec == [DataRec(sb.data_start, RawBlock(5)) EXCEPT !.size = SizeofRecHeader]
DecodeRecs == LogData \cup {CommitRec, ShortLenRec}

(* logs in which the length field of a data record need not be the size   *)
(* of a data record                                                        *)
InitDecode ==
    /\ img = "fresh"
    /\ disk = Images[img]
    /\ \E recs \in SeqsUpTo(DecodeRecs, MaxRecs) :
       \E used \in UsedChoices(recs) :
          /\ given = Constructed(recs, JOURNAL_MAGIC, used)
          /\ jarea = Layout(recs)
          /\ jmagic = JOURNAL_MAGIC
          /\ jused = used
    /\ InitRest
    /\ prog = "part_001"

NextDecode == InstallLog

SpecDecode == InitDecode /\ [][NextDecode]_vars

(* a run of n data records, for the inode bitmap and the root directory   *)
(* block in turn, no two with the same payload                             *)
Run(n, first) ==
    [i \in 1..n |->
        DataRec(IF (i + first) % 2 = 0 THEN sb.inode_bitmap ELSE sb.data_start,
                RawBlock(100 + i))]

(* logs that open with a run of up to MaxRun data records; what follows   *)
(* the run is up to two more records, so the run may be committed or not.  *)
(* The longest runs do not fit the 16 journal blocks.                      *)
InitRun ==
    /\ img = "fresh"
    /\ disk = Images[img]
    /\ \E n \in 0..MaxRun :
       \E first \in 0..1 :
       \E rest \in SeqsUpTo({CommitRec, DataRec(sb.inode_bitmap, RawBlock(1)),
                             DataRec(sb.data_start, RawBlock(3))}, 2) :
          LET recs == Run(n, first) \o rest
          IN /\ given = Constructed(recs, JOURNAL_MAGIC, EndOf(recs, Len(recs)))
             /\ jarea = Layout(recs)
             /\ jmagic = JOURNAL_MAGIC
             /\ jused = EndOf(recs, Len(recs))
    /\ InitRest
    /\ prog = "part_001"

NextRun == InstallLog

SpecRun == InitRun /\ [][NextRun]_vars

(* --------------------- commands whose I/O may fail --------------------- *)

(* the two programs of the repository: journal.c, which drops the result   *)
(* of every read and write, and "journal copy.c", which tests them         *)
Programs == {"part_001", "copy"}

(* return (result == TRUE) ? 0 : 1, and return (result == 0) ? 0 : 1 *)
ExitOf(succeeded) == IF succeeded THEN 0 ELSE 1

(* what a failed write was writing *)
FailedKind(w) ==
    IF w.kind = "hdr" THEN "header"
    ELSE IF w.kind = "blk" THEN "block"
    ELSE IF w.rec.type = REC_COMMIT THEN "commit"
    ELSE "record"

(* the writes that reach the image when write number fail of writes fails: *)
(* the bytes of the failed write reach it or not, and the writes after it  *)
(* are issued unless the program returns at the failure                    *)
Landed(writes, fail, lands, returns) ==
    IF fail \notin 1..Len(writes) THEN writes
    ELSE SubSeq(writes, 1, fail - 1)
         \o (IF lands THEN <<writes[fail]>> ELSE <<>>)
         \o (IF returns THEN <<>> ELSE SubSeq(writes, fail + 1, Len(writes)))

IOResult(status, exit, failed, inode, slot, transactions, landed) ==
    [status |-> status, exit |-> exit, failed |-> failed, inode |-> inode,
     slot |-> slot, transactions |-> transactions, landed |-> landed]

(* journal_create with its write number fail failing *)
create_io(p, d, magic, used, filename, now, fail, lands) ==
    LET r == journal_create(d, magic, used, filename, now)
        failing == fail \in 1..Len(r.writes)
        failed == IF failing THEN FailedKind(r.writes[fail]) ELSE "none"
    IN IF r.status # "ok"
          THEN IOResult(r.status, ExitOf(FALSE), "none", -1, -1, 0, <<>>)
       ELSE IF p = "part_001"
          THEN IOResult("ok", ExitOf(TRUE), failed, r.inode, r.slot, 0,
                        Landed(r.writes, fail, lands, FALSE))
       ELSE IOResult(IF failing THEN "failed" ELSE "ok", ExitOf(~failing),
                     failed, r.inode, r.slot, 0,
                     Landed(r.writes, fail, lands, TRUE))

(* what a buffer holds after a read into it failed and the program went    *)
(* on: jh is an uninitialised local, journal_data fresh from malloc        *)
HeadersSeen(magic, used) ==
    {[magic |-> 0, nbytes_used |-> 0], [magic |-> magic, nbytes_used |-> used]}
AreasSeen(area) == {EmptyArea, area}

(* journal_install with one of its reads or writes failing: fail = 1 is    *)
(* the read of the header, 2 the read of the used region, 2 + i the i-th   *)
(* write (the block writes in scan order, then the header reset)           *)
install_io(p, magic, used, area, fail, lands, jh_seen, area_seen) ==
    LET jh == IF p = "part_001" /\ fail = 1 THEN jh_seen
              ELSE [magic |-> magic, nbytes_used |-> used]
        data == IF p = "part_001" /\ fail = 2 THEN area_seen ELSE area
        r == journal_install(jh.magic, jh.nbytes_used, data)
        failing == (fail - 2) \in 1..Len(r.writes)
        failed == IF fail = 1 THEN "header read"
                  ELSE IF r.writes = <<>> THEN "none"
                  ELSE IF fail = 2 THEN "log read"
                  ELSE IF failing THEN FailedKind(r.writes[fail - 2])
                  ELSE "none"
    IN IF p = "part_001"
          THEN IOResult("ok", ExitOf(TRUE), failed, -1, -1, r.transactions,
                        Landed(r.writes, fail - 2, lands, FALSE))
       ELSE IF failed \in {"header read", "log read"}
          THEN IOResult("failed", ExitOf(FALSE), failed, -1, -1, 0, <<>>)
       ELSE IF failed = "header"
          THEN IOResult("failed", ExitOf(FALSE), failed, -1, -1, r.transactions,
                        Landed(r.writes, fail - 2, lands, TRUE))
       ELSE IOResult("ok", ExitOf(TRUE), failed, -1, -1, r.transactions,
                     Landed(r.writes, fail - 2, lands, FALSE))

IOReport(op, filename, r) ==
    [op |-> op, status |-> r.status, name |-> filename, inode |-> r.inode,
     slot |-> r.slot, transactions |-> r.transactions, wrote |-> Len(r.landed),
     logEmpty |-> LogEmpty(jmagic, jused), wasFree |-> FALSE,
     failed |-> r.failed, exit |-> r.exit]

CreateIO(filename) ==
    /\ pc = "idle"
    /\ nops < MaxIOCmds
    /\ nops' = nops + 1
    /\ \E fail \in 0..Len(journal_create(disk, jmagic, jused, filename, Now).writes) :
       \E lands \in BOOLEAN :
          /\ fail = 0 => lands
          /\ LET r == create_io(prog, disk, jmagic, jused, filename, Now, fail, lands)
             IN /\ SetImage(ApplyAll(Snapshot, r.landed))
                /\ hist' = Remember(hist, IOReport("create", filename, r))
    /\ UNCHANGED <<pc, wq, cur, pre, last, crashes, img, given, prog, sc>>

InstallIO ==
    /\ pc = "idle"
    /\ nops < MaxIOCmds
    /\ nops' = nops + 1
    /\ \E fail \in 0..(2 + Len(journal_install(jmagic, jused, jarea).writes)) :
       \E lands \in BOOLEAN :
       \E jh_seen \in HeadersSeen(jmagic, jused) :
       \E area_seen \in AreasSeen(jarea) :
          /\ fail <= 2 => lands
          /\ fail # 1 => jh_seen.magic = jmagic
          /\ fail # 2 => area_seen = jarea
          /\ LET r == install_io(prog, jmagic, jused, jarea, fail, lands,
                                 jh_seen, area_seen)
             IN /\ SetImage(ApplyAll(Snapshot, r.landed))
                /\ hist' = Remember(hist, IOReport("install", <<>>, r))
    /\ UNCHANGED <<pc, wq, cur, pre, last, crashes, img, given, prog, sc>>

InitIO ==
    /\ InitImage
    /\ InitRest
    /\ given = Constructed(<<>>, jmagic, jused)
    /\ prog \in Programs

NextIO ==
    \/ \E filename \in StepNames : CreateIO(filename)
    \/ InstallIO

SpecIO == InitIO /\ [][NextIO]_vars

(* ----------------------- images read by create ------------------------ *)

(* inode bitmaps: nearly full ones with holes at the ends of bytes and of  *)
(* the two inode-table blocks, and nearly empty ones; bit 0 may be clear   *)
Bitmaps ==
    {(0..(MAX_INODES - 1)) \ H : H \in SUBSET {0, 1, 7, 8, 31, 32, 63}}
        \cup SUBSET {0, 1, 2, 8}

(* root directories: every slot occupied but the holes, f1.txt at slot at  *)
(* (at none when at is -1)                                                 *)
DirOf(holes, at) ==
    [k \in SlotIdx \ holes |->
        IF k = at THEN Dirent(1, NameF1) ELSE DirFullDirent(k)]
Dirs == {DirOf(H, at) : H \in SUBSET {2, 5, 127}, at \in {-1, 3, 126}}

AllocNames == {NameF1, NameF2, NameEmpty}

InitAlloc ==
    /\ img = "fresh"
    /\ \/ \E bits \in Bitmaps :
             disk = [Image(1) EXCEPT ![sb.inode_bitmap] = BitmapBlock(bits)]
       \/ \E ents \in Dirs :
             disk = [Image(1) EXCEPT ![sb.data_start] = DirBlock(ents)]
    /\ jmagic = JOURNAL_MAGIC
    /\ jused = SizeofJournalHeader
    /\ jarea = EmptyArea
    /\ InitRest
    /\ given = Constructed(<<>>, jmagic, jused)
    /\ prog \in Programs

(* ./journal create <filename> of the program of the run *)
AllocCreate(filename) ==
    /\ pc = "idle"
    /\ nops < MaxAllocCmds
    /\ nops' = nops + 1
    /\ LET r == IF prog = "copy"
                   THEN journal_create_copy(disk, jmagic, jused, filename, Now)
                   ELSE journal_create(disk, jmagic, jused, filename, Now)
       IN /\ SetImage(ApplyAll(Snapshot, r.writes))
          /\ hist' = Remember(hist, [CreateReport(filename, r) EXCEPT
                                      !.wrote = Len(r.writes)])
    /\ UNCHANGED <<pc, wq, cur, pre, last, crashes, img, given, prog, sc>>

AllocInstall ==
    /\ nops < MaxAllocCmds
    /\ InstallCmd

NextAlloc ==
    \/ \E filename \in AllocNames : AllocCreate(filename)
    \/ AllocInstall

SpecAlloc == InitAlloc /\ [][NextAlloc]_vars

(* ------------------ headers with any word as used_bytes ---------------- *)

(* values of the 32-bit nbytes_used field: inside the journal, at and just *)
(* above its capacity, and near 2^32, where adding the space needed wraps  *)
UsedWords ==
    {SizeofJournalHeader,
     SizeofJournalHeader + 3 * SizeofDataRecord + SizeofCommitRecord,
     SpaceAvailable - SpaceNeeded, SpaceAvailable - SpaceNeeded + 1,
     SpaceAvailable, SpaceAvailable + 1, 70000,
     Word(U16 - 1, U16 - 1 - Lo16(SpaceNeeded)),
     Word(U16 - 1, U16 - Lo16(SpaceNeeded)),
     Word(U16 - 1, U16 - 100),
     Word(U16 - 1, U16 - 1)}

(* one request to read_journal or write_journal *)
JournalIO(op, offset, size) == [op |-> op, offset |-> offset, size |-> size]

(* the journal reads and writes of journal_create, in program order *)
create_journal_io(r, filename) ==
    IF NameTooLong(filename) THEN <<>>
    ELSE <<JournalIO("read", 0, SizeofJournalHeader)>>
         \o [i \in 1..Len(r.writes) |->
                IF r.writes[i].kind = "hdr"
                    THEN JournalIO("write", 0, SizeofJournalHeader)
                    ELSE JournalIO("write", r.writes[i].off, r.writes[i].len)]

(* journal_install when malloc(jh.nbytes_used) may return NULL *)
journal_install_alloc(magic, used, area, malloc_ok) ==
    IF magic = JOURNAL_MAGIC /\ ~U32Le(used, SizeofJournalHeader) /\ ~malloc_ok
        THEN [status |-> "NoMemory", transactions |-> 0, writes |-> <<>>]
        ELSE journal_install(magic, used, area)

(* the journal reads and writes of journal_install, in program order *)
install_journal_io(magic, used, malloc_ok) ==
    <<JournalIO("read", 0, SizeofJournalHeader)>>
    \o (IF magic # JOURNAL_MAGIC \/ U32Le(used, SizeofJournalHeader) \/ ~malloc_ok
          THEN <<>>
          ELSE <<JournalIO("read", 0, used),
                 JournalIO("write", 0, SizeofJournalHeader)>>)

(* a request for at most the 64 KiB of the journal is taken to be granted *)
MallocChoices(used) ==
    IF U32Gt(used, SpaceAvailable) THEN BOOLEAN ELSE {TRUE}

InitSpan ==
    /\ img = "fresh"
    /\ disk = Images[img]
    /\ jmagic = JOURNAL_MAGIC
    /\ jused \in UsedWords
    /\ \E n \in 0..1 :
          jarea = Prefilled(Snap(Images[img], JOURNAL_MAGIC,
                                 SizeofJournalHeader, EmptyArea), n).jarea
    /\ InitRest
    /\ given = Constructed(<<>>, jmagic, jused)
    /\ prog = "part_001"

SpanCreate(filename) ==
    /\ nops < MaxSpanCmds
    /\ CreateCmd(filename)

SpanInstall ==
    /\ pc = "idle"
    /\ nops < MaxSpanCmds
    /\ nops' = nops + 1
    /\ \E malloc_ok \in MallocChoices(jused) :
       \E heap \in HeapFor(jarea, jused) :
       LET r == journal_install_alloc(jmagic, jused,
                                      journal_data(jarea, jused, heap),
                                      malloc_ok)
       IN /\ SetImage(ApplyAll(Snapshot, r.writes))
          /\ hist' = Remember(hist, [InstallReport(r) EXCEPT
                                      !.wrote = Len(r.writes)])
    /\ UNCHANGED <<pc, wq, cur, pre, last, crashes, img, given, prog, sc>>

NextSpan ==
    \/ \E filename \in StepNames : SpanCreate(filename)
    \/ SpanInstall

SpecSpan == InitSpan /\ [][NextSpan]_vars

(* ------------------ install, one loop iteration at a time -------------- *)

ScanRecs == DecodeRecs \cup {BadTagRec, ZeroLenRec}

(* A log of 4 GiB less one byte filled with data records back to back:     *)
(* the scan steps 4104 bytes a record from offset 8, so its 1,046,532nd    *)
(* iteration is at offset 8 + 1,046,531 x 4104 = 2^32 - 4064, with the     *)
(* first 16 records pending.  The record there reaches 40 bytes past 2^32. *)
BigUsed == Word(U16 - 1, U16 - 1)
BigRec == DataRec(sb.data_start, RawBlock(7))
LastLapOffset == Word(U16 - 1, U16 - 4064)
BigPending ==
    [i \in 1..PendingMax |->
        PendingWrite(BigRec, SizeofJournalHeader + (i - 1) * SizeofDataRecord)]

(* the records of that log the scan looks at from there on: the one at     *)
(* LastLapOffset and what the payload of the first record holds at offset  *)
(* 40, read as a record header                                             *)
BigArea(at40) ==
    [o \in {LastLapOffset} \cup (IF at40 = ZeroRec THEN {} ELSE {40}) |->
        IF o = 40 THEN at40 ELSE BigRec]

InitScan ==
    /\ img = "fresh"
    /\ disk = Images[img]
    /\ jmagic = JOURNAL_MAGIC
    /\ wq = <<>>
    /\ cur = NoReport
    /\ pre = NoPre
    /\ last = NoReport
    /\ hist = <<>>
    /\ crashes = 0
    /\ prog = "part_001"
    /\ \/ /\ pc = "idle"
          /\ nops = 0
          /\ sc = NoScan
          /\ \E recs \in SeqsUpTo(ScanRecs, MaxScanRecs) :
             \E used \in UsedChoices(recs) :
                /\ given = Constructed(recs, JOURNAL_MAGIC, used)
                /\ jarea = Layout(recs)
                /\ jused = used
       \/ /\ pc = "scan"
          /\ nops = 1
          /\ jused = BigUsed
          /\ given = Constructed(<<>>, JOURNAL_MAGIC, BigUsed)
          /\ \E at40 \in {ZeroRec, CommitRec, BigRec} : jarea = BigArea(at40)
          /\ \E heap \in HeapBytes :
                sc = ScanAt(LastLapOffset, BigPending, 0, heap)

(* journal_install up to the loop: the header is read and tested, the      *)
(* buffer allocated and the used region read into it                       *)
ScanBegin ==
    /\ pc = "idle"
    /\ nops < MaxScanCmds
    /\ nops' = nops + 1
    /\ IF jmagic # JOURNAL_MAGIC \/ U32Le(jused, SizeofJournalHeader)
          THEN /\ hist' = Remember(hist, InstallReport(InstallResult(0, <<>>)))
               /\ UNCHANGED <<pc, sc>>
          ELSE \E malloc_ok \in MallocChoices(jused) :
               \E heap \in HeapFor(jarea, jused) :
                  IF malloc_ok
                      THEN /\ pc' = "scan"
                           /\ sc' = ScanAt(SizeofJournalHeader, <<>>, 0, heap)
                           /\ UNCHANGED hist
                      ELSE /\ hist' = Remember(hist, InstallReport(
                                  journal_install_alloc(jmagic, jused, jarea, FALSE)))
                           /\ UNCHANGED <<pc, sc>>
    /\ UNCHANGED <<disk, jmagic, jused, jarea, wq, cur, pre, last, crashes,
                   img, given, prog>>

(* the test of the while loop and one pass through its body *)
ScanIter ==
    /\ pc = "scan"
    /\ LET rec == RecAt(journal_data(jarea, jused, sc.heap), sc.offset)
       IN IF \/ ~U32Lt(sc.offset, jused)
             \/ rec.size = 0
             \/ U32Gt(U32Add(sc.offset, rec.size), jused)
             \/ rec.type \notin {REC_DATA, REC_COMMIT}
             THEN /\ pc' = "reset"
                  /\ UNCHANGED <<sc, disk, jmagic, jused, jarea>>
          ELSE IF rec.type = REC_DATA
             THEN /\ sc' = [sc EXCEPT
                              !.offset = U32Add(@, SizeofDataRecord),
                              !.pending = IF Len(@) < PendingMax
                                             THEN Append(@, PendingWrite(rec, sc.offset))
                                             ELSE @]
                  /\ UNCHANGED <<pc, disk, jmagic, jused, jarea>>
          ELSE /\ SetImage(ApplyAll(Snapshot, sc.pending))
               /\ sc' = [sc EXCEPT !.offset = U32Add(@, SizeofCommitRecord),
                                   !.pending = <<>>,
                                   !.transactions = @ + 1]
               /\ UNCHANGED pc
    /\ UNCHANGED <<wq, cur, pre, last, hist, nops, crashes, img, given, prog>>

(* behind the loop: the pending writes are dropped and the header reset *)
ScanReset ==
    /\ pc = "reset"
    /\ SetImage(ApplyWrite(Snapshot, HeaderWrite(jmagic, SizeofJournalHeader)))
    /\ hist' = Remember(hist, [InstallReport(InstallResult(sc.transactions, <<>>))
                                  EXCEPT !.wrote = 1])
    /\ pc' = "idle"
    /\ sc' = NoScan
    /\ UNCHANGED <<wq, cur, pre, last, nops, crashes, img, given, prog>>

NextScan == ScanBegin \/ ScanIter \/ ScanReset

SpecScan == InitScan /\ [][NextScan]_vars

(* the program is not stopped from outside: an install that has begun goes *)
(* on to its next iteration                                                *)
FairSpecScan == SpecScan /\ WF_vars(ScanIter) /\ WF_vars(ScanReset)

(* ------------------------------ properties ----------------------------- *)

(* the records of a constructed log that lie in its used region *)
UsedCount == SetMax({k \in 0..Len(given.recs) : EndOf(given.recs, k) <= given.used})
UsedRecs == SubSeq(given.recs, 1, UsedCount)

IsData(rec) == rec \in LogData
IsCommit(rec) == rec = CommitRec
Commits(recs) == {i \in 1..Len(recs) : IsCommit(recs[i])}
LastCommit(recs) == IF Commits(recs) = {} THEN 0 ELSE SetMax(Commits(recs))

(* the used region is K complete transactions and then N >= 1 data         *)
(* records without a commit                                                *)
DanglingLog ==
    /\ given.magic = JOURNAL_MAGIC
    /\ UsedRecs # <<>>
    /\ EndOf(given.recs, UsedCount) = given.used
    /\ \A i \in 1..Len(UsedRecs) : IsData(UsedRecs[i]) \/ IsCommit(UsedRecs[i])
    /\ IsData(UsedRecs[Len(UsedRecs)])

CommittedTo(b) ==
    {i \in 1..LastCommit(UsedRecs) : IsData(UsedRecs[i]) /\ UsedRecs[i].block_no = b}
DanglingTo(b) ==
    {i \in (LastCommit(UsedRecs) + 1)..Len(UsedRecs) : UsedRecs[i].block_no = b}

(* what replay of the committed transactions leaves in block b *)
Replayed(b) ==
    IF CommittedTo(b) = {} THEN Images[img][b]
    ELSE UsedRecs[SetMax(CommittedTo(b))].data

(* C1: all-or-nothing replay.  After install of a log whose used region is *)
(* K complete transactions followed by N >= 1 data records with no commit, *)
(* every block holds the payload of the last committed record for it or,   *)
(* if none, what it held before; K transactions are reported; used_bytes   *)
(* is the header size.                                                     *)
C1_AllOrNothingReplay ==
    (hist # <<>> /\ DanglingLog) =>
        /\ \A b \in DOMAIN disk : disk[b] = Replayed(b)
        /\ hist[1].transactions = Cardinality(Commits(UsedRecs))
        /\ jused = SizeofJournalHeader
        /\ jmagic = JOURNAL_MAGIC

(* an installed log with a committed transaction, then a dangling record   *)
(* for a block no committed record targets                                 *)
C1_Witness ==
    /\ hist # <<>>
    /\ DanglingLog
    /\ Commits(UsedRecs) # {}
    /\ \E b \in LogBlocks : DanglingTo(b) # {} /\ CommittedTo(b) = {}
    /\ \E b \in LogBlocks : Cardinality(CommittedTo(b)) >= 2

(* the create in progress, or the create a crash interrupted *)
Crashed(op) == pc = "idle" /\ last.op = op /\ last.status = "crashed"
InCreate == pc = "create" \/ Crashed("create")

IsDataWrite(w) == w.kind = "rec" /\ w.rec.type = REC_DATA
IsCommitWrite(w) == w.kind = "rec" /\ w.rec.type = REC_COMMIT

(* C2: crash-atomicity of create.  The writes a create has still to issue  *)
(* are data records, then the commit record, then the header; and while    *)
(* the header write is outstanding, or after a crash before it, the        *)
(* on-disk header is the one the create started from and install does      *)
(* exactly what it would have done before the create.                      *)
C2_CreateCrashAtomic ==
    /\ pc = "create" =>
        /\ wq # <<>>
        /\ wq[Len(wq)].kind = "hdr"
        /\ \A i \in 1..(Len(wq) - 1) :
              \/ IsCommitWrite(wq[i]) /\ i = Len(wq) - 1
              \/ IsDataWrite(wq[i]) /\ i < Len(wq) - 1
    /\ InCreate =>
        /\ jmagic = pre.jmagic
        /\ jused = pre.jused
        /\ disk = pre.disk
        /\ journal_install(jmagic, jused, jarea)
               = journal_install(pre.jmagic, pre.jused, pre.jarea)

(* a create that crashed after its data records and its commit record      *)
(* reached a log already holding a transaction                             *)
C2_Witness ==
    /\ Crashed("create")
    /\ last.wrote >= 4
    /\ jused > SizeofJournalHeader
    /\ RecAt(jarea, jused).type = REC_DATA

(* ------------------------- whole-command steps ------------------------- *)

(* the root directory block of an image, found through inode 0 *)
RootDirents(d) == d[InodeAt(d[sb.inode_start].ino, 0).direct[0]].ents

(* the run started from the formatted image with nothing logged *)
FreshStart == img = "fresh" /\ given.recs = <<>> /\ given.used <= SizeofJournalHeader

(* the report of the command a step ran *)
Ran == hist'[Len(hist')]
RanCreate == nops' = nops + 1 /\ Ran.op = "create"
RanInstall == nops' = nops + 1 /\ Ran.op = "install"

(* name and allocation of a create are valid on the image it reads *)
OtherwiseValid(d, filename) ==
    /\ ~NameTooLong(filename)
    /\ find_free_inode(d[sb.inode_bitmap].bits) # -1
    /\ find_free_dirent(RootDirents(d), filename).result = 0

(* the bytes of the records a create on image d appends *)
Required(d) ==
    (IF find_free_inode(d[sb.inode_bitmap].bits) >= INODES_PER_BLOCK
        THEN 4 ELSE 3) * SizeofDataRecord + SizeofCommitRecord

(* C3: the capacity check is exact.  From a fresh image, a create whose    *)
(* name and allocation are valid succeeds if and only if used_bytes plus   *)
(* the size of the records it appends is at most the journal capacity;     *)
(* otherwise it fails with JournalFull and used_bytes is unchanged.        *)
C3_CapacityExact ==
    [][(img = "fresh" /\ RanCreate /\ OtherwiseValid(disk, Ran.name)) =>
          LET used_bytes == CreateHeader(jmagic, jused).nbytes_used
              fits == used_bytes + Required(disk) <= SpaceAvailable
          IN /\ (Ran.status = "ok") <=> fits
             /\ ~fits => Ran.status = "JournalFull" /\ jused' = jused]_vars

(* what the code does instead: room for four data records and a commit     *)
(* is demanded of every create                                             *)
C3_WorstCaseCheck ==
    [][(img = "fresh" /\ RanCreate /\ OtherwiseValid(disk, Ran.name)) =>
          LET used_bytes == CreateHeader(jmagic, jused).nbytes_used
              fits == used_bytes + SpaceNeeded <= SpaceAvailable
          IN /\ (Ran.status = "ok") <=> fits
             /\ ~fits => Ran.status = "JournalFull" /\ jused' = jused]_vars

(* C4: end to end.  From a freshly formatted image, create f1.txt, create  *)
(* f2.txt, install leaves entries named f1.txt and f2.txt with distinct    *)
(* inode numbers in the root directory; install reports 2 transactions;    *)
(* the log is empty afterwards.                                            *)
C4_Scenario ==
    /\ FreshStart
    /\ nops = 3
    /\ Len(hist) = 3
    /\ hist[1].op = "create" /\ hist[1].name = NameF1
    /\ hist[2].op = "create" /\ hist[2].name = NameF2
    /\ hist[3].op = "install"

C4_EndToEnd ==
    C4_Scenario =>
        LET ents == RootDirents(disk)
        IN /\ \E i, j \in DOMAIN ents :
                 /\ ents[i].name = NameF1
                 /\ ents[j].name = NameF2
                 /\ ents[i].inode # ents[j].inode
           /\ hist[3].transactions = 2
           /\ jmagic = JOURNAL_MAGIC
           /\ jused = SizeofJournalHeader

(* the part of the scenario that the code does deliver *)
C4_CountAndReset ==
    C4_Scenario =>
        /\ hist[1].status = "ok" /\ hist[2].status = "ok"
        /\ hist[3].transactions = 2
        /\ jmagic = JOURNAL_MAGIC
        /\ jused = SizeofJournalHeader
        /\ \E j \in DOMAIN RootDirents(disk) : RootDirents(disk)[j].name = NameF2
        /\ \A i \in DOMAIN RootDirents(disk) : RootDirents(disk)[i].name # NameF1

(* inode i of an image, from the inode-table block that holds it *)
InodeOf(d, i) ==
    IF i < INODES_PER_BLOCK THEN InodeAt(d[sb.inode_start].ino, i)
    ELSE InodeAt(d[sb.inode_start + 1].ino, i - INODES_PER_BLOCK)

(* the last two commands were a successful create on an installed image    *)
(* with an empty log, then install                                         *)
CreatedThenInstalled ==
    /\ Len(hist) >= 2
    /\ hist[Len(hist) - 1].op = "create"
    /\ hist[Len(hist) - 1].status = "ok"
    /\ hist[Len(hist) - 1].logEmpty
    /\ hist[Len(hist)].op = "install"

(* the root directory holds name in an occupied slot that references the   *)
(* inode the create allocated, a file inode with no blocks                 *)
RoundTrip(c) ==
    /\ \E s \in DOMAIN RootDirents(disk) :
          /\ Occupied(RootDirents(disk), s)
          /\ StrEq(RootDirents(disk)[s].name, c.name)
          /\ RootDirents(disk)[s].inode = c.inode
    /\ c.inode # 0
    /\ c.wasFree
    /\ InodeOf(disk, c.inode).type = INODE_FILE
    /\ InodeOf(disk, c.inode).links = 1
    /\ InodeOf(disk, c.inode).size = 0
    /\ InodeOf(disk, c.inode).direct = NoDirect
    /\ ~BitClear(disk[sb.inode_bitmap].bits, c.inode)

(* C5: round-trip content fidelity.  For any installed state with an empty *)
(* log in which create(name) succeeds, create(name) then install yields an *)
(* occupied root-directory entry named name whose inode was free before    *)
(* the create, is a file with link count 1, size 0 and 8 zero direct       *)
(* pointers, and has its bitmap bit set.                                   *)
C5_RoundTripFidelity ==
    CreatedThenInstalled => RoundTrip(hist[Len(hist) - 1])

(* the same for the names of at least one byte *)
C5_NonEmptyNames ==
    (CreatedThenInstalled /\ hist[Len(hist) - 1].name # NameEmpty)
        => RoundTrip(hist[Len(hist) - 1])

(* C6: idempotent install.  Install on a log that is uninitialized, empty  *)
(* or freshly reset by a previous install applies zero transactions,       *)
(* succeeds and leaves every block and the journal header unchanged; for   *)
(* any log, a second install right after the first changes nothing.        *)
C6_IdempotentInstall ==
    [][(RanInstall /\ (LogEmpty(jmagic, jused) \/ nops >= 1)) =>
          /\ Ran.transactions = 0
          /\ Ran.status = "ok"
          /\ Ran.wrote = 0
          /\ disk' = disk
          /\ jmagic' = jmagic
          /\ jused' = jused
          /\ jarea' = jarea]_vars

(* a second install right after one that applied a transaction and wrote   *)
(* blocks                                                                  *)
C6_Witness ==
    /\ nops = 2
    /\ Len(hist) = 2
    /\ hist[1].op = "install" /\ hist[1].transactions >= 1 /\ hist[1].wrote >= 2
    /\ hist[2].op = "install" /\ hist[2].transactions = 0
    /\ disk # Images[img]

(* a step of a create command: its checks, one of its writes, or its crash *)
CreateActs ==
    \/ pc = "idle" /\ pc' = "create"
    \/ pc = "idle" /\ pc' = "idle" /\ nops' = nops + 1 /\ last'.op = "create"
    \/ pc = "create"

(* C7: create touches only the log.  Every step of a create, successful,   *)
(* failed or cut short by a crash, leaves every block outside the journal  *)
(* region unchanged.                                                       *)
C7_CreateOnlyLog ==
    [][CreateActs => disk' = disk]_vars

(* a create that ran to its header write on an image that an install had   *)
(* already changed                                                         *)
C7_Witness ==
    /\ pc = "idle"
    /\ last.op = "create" /\ last.status = "ok" /\ last.wrote >= 5
    /\ jused > SizeofJournalHeader
    /\ disk # Images[img]

Failures ==
    {"NameTooLong", "JournalFull", "NoFreeInodes", "AlreadyExists", "DirectoryFull"}

ImageUnchanged ==
    /\ disk' = disk
    /\ jmagic' = jmagic
    /\ jused' = jused
    /\ jarea' = jarea

(* C8: a create that fails with NameTooLong, JournalFull, NoFreeInodes,    *)
(* AlreadyExists or DirectoryFull performs no write: blocks, journal       *)
(* header and record area are the same after the call as before.           *)
C8_FailedCreateWritesNothing ==
    [][(RanCreate /\ Ran.status \in Failures) =>
          Ran.wrote = 0 /\ ImageUnchanged]_vars

(* a create turned down for a name that the install before it had put in  *)
(* the directory                                                           *)
C8_Witness ==
    /\ Len(hist) = 3
    /\ hist[1].op = "create" /\ hist[1].status = "ok"
    /\ hist[2].op = "install" /\ hist[2].transactions >= 1
    /\ hist[3].op = "create" /\ hist[3].status = "AlreadyExists"
    /\ hist[3].name = hist[1].name
    /\ jused = SizeofJournalHeader

(* the last three commands were create(n), which succeeded, install, and   *)
(* create(n) again                                                         *)
CreateInstallCreate ==
    /\ Len(hist) >= 3
    /\ hist[Len(hist) - 2].op = "create"
    /\ hist[Len(hist) - 2].status = "ok"
    /\ hist[Len(hist) - 1].op = "install"
    /\ hist[Len(hist)].op = "create"
    /\ hist[Len(hist)].name = hist[Len(hist) - 2].name

(* C9: duplicate-name rejection.  For any name n, after create(n) and      *)
(* install, create(n) fails with AlreadyExists and appends nothing to the  *)
(* log.                                                                    *)
C9_DuplicateRejected ==
    CreateInstallCreate =>
        /\ hist[Len(hist)].status = "AlreadyExists"
        /\ hist[Len(hist)].wrote = 0
        /\ jused = SizeofJournalHeader

(* what the code delivers: a name of at least one byte is turned down,     *)
(* with AlreadyExists unless every inode is taken, and nothing is appended *)
C9_NonEmptyRejected ==
    (CreateInstallCreate /\ hist[Len(hist)].name # NameEmpty) =>
        /\ hist[Len(hist)].status \in {"AlreadyExists", "NoFreeInodes"}
        /\ hist[Len(hist)].status = "NoFreeInodes"
               => find_free_inode(disk[sb.inode_bitmap].bits) = -1
        /\ hist[Len(hist)].wrote = 0
        /\ jused = SizeofJournalHeader

(* the checks of create other than the length of the name pass: the        *)
(* journal has the room the capacity check asks for, an inode and a slot   *)
(* are free, no entry has the name                                         *)
RoomAndFree(filename) ==
    /\ ~JournalFull(CreateHeader(jmagic, jused).nbytes_used)
    /\ find_free_inode(disk[sb.inode_bitmap].bits) # -1
    /\ find_free_dirent(RootDirents(disk), filename).result = 0

(* C10: name length boundary.  With journal space, a free inode and a free *)
(* slot available and the name not present, create with a name of exactly  *)
(* 27 bytes succeeds, and the entry an install then writes holds the 27    *)
(* bytes with a zero byte after them in its 28-byte field; create with a   *)
(* name of 28 bytes or more fails with NameTooLong and changes nothing.    *)
C10_NameLengthBoundary ==
    [][/\ (RanCreate /\ Len(Ran.name) = NameMax /\ RoomAndFree(Ran.name))
            => Ran.status = "ok"
       /\ (RanCreate /\ Len(Ran.name) > NameMax)
            => Ran.status = "NameTooLong" /\ Ran.wrote = 0 /\ ImageUnchanged
       /\ (RanInstall /\ hist # <<>> /\ hist[Len(hist)].op = "create"
              /\ hist[Len(hist)].status = "ok"
              /\ Len(hist[Len(hist)].name) = NameMax)
            => \E s \in DOMAIN RootDirents(disk') :
                  /\ RootDirents(disk')[s].name = hist[Len(hist)].name
                  /\ Len(RootDirents(disk')[s].name) = NameMax
                  /\ Len(RootDirents(disk')[s].name) < NameBuf
                  /\ RootDirents(disk')[s].inode = hist[Len(hist)].inode]_vars

(* a 28-byte name turned down, then the 27-byte name created and installed *)
C10_Witness ==
    /\ Len(hist) = 3
    /\ hist[1].op = "create" /\ hist[1].name = Name28
    /\ hist[1].status = "NameTooLong"
    /\ hist[2].op = "create" /\ hist[2].name = Name27 /\ hist[2].status = "ok"
    /\ hist[3].op = "install" /\ hist[3].transactions >= 1
    /\ \E s \in DOMAIN RootDirents(disk) : RootDirents(disk)[s].name = Name27

(* the names in the directory blocks logged in the used region *)
LoggedNames ==
    {DirentAt(jarea[o].data.ents, s).name :
        o \in {x \in DOMAIN jarea : x < jused /\ jarea[x].type = REC_DATA
                                      /\ jarea[x].data.kind = "dir"},
        s \in SlotIdx} \ {NameEmpty}

(* nothing has been installed since the image was formatted *)
NothingInstalled == img = "fresh" /\ disk = Images[img]

(* transactions in the log of an image on which nothing was installed *)
Logged ==
    (CreateHeader(jmagic, jused).nbytes_used - SizeofJournalHeader)
        \div Required(disk)

(* C11: the journal holds five transactions.  From a fresh image, five     *)
(* consecutive creates of distinct names with no install in between all    *)
(* succeed, the sixth fails with JournalFull, and after one install the    *)
(* same sixth create succeeds.                                             *)
C11_HoldsFive ==
    [][/\ (RanCreate /\ NothingInstalled /\ Len(Ran.name) \in 1..NameMax
              /\ Ran.name \notin LoggedNames)
            => /\ Logged < 5 => Ran.status = "ok"
               /\ Logged = 5 => Ran.status = "JournalFull"
       /\ (RanCreate /\ Len(hist) >= 2
              /\ hist[Len(hist)].op = "install"
              /\ hist[Len(hist) - 1].status = "JournalFull"
              /\ hist[Len(hist) - 1].name = Ran.name)
            => Ran.status = "ok"]_vars

(* what the code delivers: four creates succeed, the fifth is turned down, *)
(* and after an install it succeeds unless the install put its name (or,   *)
(* on other images, the last inode) in use                                 *)
C11_HoldsFour ==
    [][/\ (RanCreate /\ NothingInstalled /\ Len(Ran.name) \in 1..NameMax
              /\ Ran.name \notin LoggedNames)
            => /\ Logged < 4 => Ran.status = "ok"
               /\ Logged = 4 => Ran.status = "JournalFull"
       /\ (RanCreate /\ img = "fresh" /\ Len(hist) >= 2
              /\ hist[Len(hist)].op = "install"
              /\ hist[Len(hist) - 1].status = "JournalFull"
              /\ hist[Len(hist) - 1].name = Ran.name)
            => Ran.status = "ok"]_vars

(* C12: install reports I/O failures.  If a block write issued while       *)
(* applying a committed transaction fails, or the header read, the log     *)
(* read or the header reset fails, install ends with exit status 1; it     *)
(* exits 0 only when every read and write it issued succeeded.             *)
C12_InstallReportsFailures ==
    [][RanInstall => (Ran.exit = 0 <=> Ran.failed = "none")]_vars

(* what the programs deliver: journal.c exits 0 whatever fails; "journal   *)
(* copy.c" exits 1 for a failed read or header reset but 0 for a failed    *)
(* block write, and resets the header after it                             *)
C12_AsCoded ==
    [][RanInstall =>
          /\ prog = "part_001" => Ran.exit = 0
          /\ prog = "copy" =>
                (Ran.exit = 1 <=> Ran.failed \in {"header read", "log read", "header"})
          /\ (Ran.failed = "block" /\ jmagic = JOURNAL_MAGIC)
                => Ran.exit = 0 /\ jused' = SizeofJournalHeader]_vars

(* C13: create reports append failures.  In each implementation of         *)
(* journal_create, if a journal write of a data record or of the commit    *)
(* record fails, the create exits with status 1 and the on-disk header's   *)
(* used_bytes is not advanced.                                             *)
C13_CreateReportsAppendFailures ==
    [][(RanCreate /\ Ran.failed \in {"record", "commit"}) =>
          /\ Ran.exit = 1
          /\ jused' = jused
          /\ jmagic' = jmagic]_vars

(* what the programs deliver: "journal copy.c" does so; journal.c exits 0  *)
(* and advances the header past the record that failed                     *)
C13_AsCoded ==
    [][(RanCreate /\ Ran.failed \in {"record", "commit"}) =>
          /\ prog = "copy" => Ran.exit = 1 /\ jused' = jused /\ jmagic' = jmagic
          /\ prog = "part_001" =>
                /\ Ran.exit = 0
                /\ jmagic' = JOURNAL_MAGIC
                /\ jused' = CreateHeader(jmagic, jused).nbytes_used + Required(disk)]_vars

(* the last command was an install *)
JustInstalled == hist # <<>> /\ hist[Len(hist)].op = "install"

(* C14: bitmap/inode agreement.  In every state reached at the completion  *)
(* of an install, after any sequence of creates and installs, bit i of     *)
(* the inode bitmap is set if and only if the type of inode i is not free, *)
(* for every i in 0..63.                                                   *)
C14_BitmapInodeAgreement ==
    JustInstalled =>
        \A i \in InodeIdx :
            ~BitClear(disk[sb.inode_bitmap].bits, i)
                <=> InodeOf(disk, i).type # INODE_FREE

(* an install of two transactions on the fresh image that left an inode    *)
(* allocated by a create                                                   *)
C14_Witness ==
    /\ JustInstalled
    /\ img = "fresh"
    /\ hist[Len(hist)].transactions >= 2
    /\ \E i \in InodeIdx \ {0} :
          /\ ~BitClear(disk[sb.inode_bitmap].bits, i)
          /\ InodeOf(disk, i).type = INODE_FILE

(* C15: cursor bounds.  In every state reached from a fresh image by       *)
(* creates, installs and crashes between writes, an on-disk journal header *)
(* that carries the magic has header size <= used_bytes <= capacity.       *)
C15_CursorBounds ==
    jmagic = JOURNAL_MAGIC =>
        /\ SizeofJournalHeader <= jused
        /\ jused <= JOURNAL_BLOCKS * BLOCK_SIZE

(* a create has filled the log as far as the capacity check lets it, in a  *)
(* run in which a command was cut short by a crash                         *)
C15_Witness ==
    /\ pc = "idle"
    /\ last.op = "create" /\ last.status = "ok"
    /\ crashes >= 1
    /\ jmagic = JOURNAL_MAGIC
    /\ JournalFull(jused)

(* the install in progress, or the install a crash interrupted *)
InInstall == pc = "install" \/ Crashed("install")

(* the blocks an install run to completion on an image leaves *)
Installed(im) ==
    ApplyAll(im, journal_install(im.jmagic, im.jused, im.jarea).writes).disk

(* C16: replay is idempotent across a crash inside install.  While install *)
(* has issued a prefix of its block writes, or after a crash at that       *)
(* point, journal header and record area are as before the install, and    *)
(* install run again leaves in every block what one uninterrupted install  *)
(* would have; the header reset is the last write, after the block writes  *)
(* of every committed transaction.                                         *)
C16_InstallCrashIdempotent ==
    /\ pc = "install" =>
          /\ wq # <<>>
          /\ wq[Len(wq)].kind = "hdr"
          /\ \A i \in 1..(Len(wq) - 1) : wq[i].kind = "blk"
    /\ InInstall =>
          /\ jmagic = pre.jmagic
          /\ jused = pre.jused
          /\ jarea = pre.jarea
          /\ Installed(Snapshot) = Installed(pre)

(* an install of two transactions that a crash cut short after the writes  *)
(* of the first, with blocks that are neither as before nor as at the end  *)
C16_Witness ==
    /\ Crashed("install")
    /\ last.transactions >= 2
    /\ last.wrote >= 3
    /\ disk # pre.disk
    /\ disk # Installed(pre)

(* record i of a constructed log lies where the scan reads a record        *)
(* header, and its length field is zero, or reaches past used_bytes, or    *)
(* its tag is neither data nor commit                                      *)
BadAt(i) ==
    /\ EndOf(given.recs, i - 1) < given.used
    /\ \/ given.recs[i].size = 0
       \/ EndOf(given.recs, i - 1) + given.recs[i].size > given.used
       \/ given.recs[i].type \notin {REC_DATA, REC_COMMIT}

BadRecs == {i \in 1..Len(given.recs) : BadAt(i)}

(* the records the scan passes before it meets the first such record *)
BeforeBad == SubSeq(given.recs, 1, SetMin(BadRecs) - 1)

(* what replay of the complete transactions of recs leaves in block b *)
ReplayOf(recs, b) ==
    LET hits == {i \in 1..LastCommit(recs) :
                    IsData(recs[i]) /\ recs[i].block_no = b}
    IN IF hits = {} THEN Images[img][b] ELSE recs[SetMax(hits)].data

SecondCreate ==
    /\ RanCreate
    /\ Ran.status = "ok"
    /\ hist # <<>>
    /\ hist[Len(hist)].op = "create"
    /\ hist[Len(hist)].status = "ok"

(* the data record the step logged for block b *)
LoggedFor(b) ==
    LET at == {o \in DOMAIN jarea' :
                  /\ o >= CreateHeader(jmagic, jused).nbytes_used
                  /\ o < jused'
                  /\ jarea'[o].type = REC_DATA
                  /\ jarea'[o].block_no = b}
    IN jarea'[CHOOSE o \in at : TRUE].data

(* C18: snapshot gap.  Of two successful creates with no install between   *)
(* them the second is built from the same installed snapshot: it is given  *)
(* the same inode number and directory slot as the first, and the bitmap,  *)
(* inode-table and directory blocks it logs are the installed ones with    *)
(* its own entry only, without the first create's.                         *)
C18_SnapshotGap ==
    [][SecondCreate =>
          /\ Ran.inode = hist[Len(hist)].inode
          /\ Ran.slot = hist[Len(hist)].slot
          /\ LoggedFor(sb.inode_bitmap).bits
                = set_bit(disk[sb.inode_bitmap].bits, Ran.inode)
          /\ \A s \in SlotIdx \ {Ran.slot} :
                DirentAt(LoggedFor(sb.data_start).ents, s)
                    = DirentAt(RootDirents(disk), s)
          /\ DirentAt(LoggedFor(sb.data_start).ents, Ran.slot)
                = Dirent(Ran.inode, Ran.name)
          /\ \A i \in InodeIdx \ {0, Ran.inode} :
                InodeAt(LoggedFor(sb.inode_start).ino, i) = InodeOf(disk, i)
                  \/ i >= INODES_PER_BLOCK
          /\ Ran.name # hist[Len(hist)].name =>
                \A s \in SlotIdx :
                    DirentAt(LoggedFor(sb.data_start).ents, s).name
                        # hist[Len(hist)].name
                    \/ hist[Len(hist)].name = NameEmpty]_vars

(* two creates of different names, one right after the other, both         *)
(* successful and both in the log                                          *)
C18_Witness ==
    /\ Len(hist) >= 2
    /\ hist[Len(hist) - 1].op = "create" /\ hist[Len(hist) - 1].status = "ok"
    /\ hist[Len(hist)].op = "create" /\ hist[Len(hist)].status = "ok"
    /\ hist[Len(hist)].name # hist[Len(hist) - 1].name
    /\ hist[Len(hist)].inode = hist[Len(hist) - 1].inode
    /\ jused >= SizeofJournalHeader + 2 * (3 * SizeofDataRecord + SizeofCommitRecord)

(* the record at off is an untorn data record for block b *)
DataFor(area, off, b) ==
    /\ off \in DOMAIN area
    /\ area[off].type = REC_DATA
    /\ area[off].size = SizeofDataRecord
    /\ area[off].block_no = b
    /\ ~area[off].torn

(* the record at off is a commit record *)
CommitAt(area, off) ==
    /\ off \in DOMAIN area
    /\ area[off].type = REC_COMMIT
    /\ area[off].size = SizeofCommitRecord

(* C19: transaction layout.  Every successful create appends, contiguously *)
(* from the previous used_bytes, data records for the inode bitmap, inode-  *)
(* table block 0, inode-table block 1 (if and only if the inode taken is   *)
(* 32 or above) and the root directory block, in this order, then exactly  *)
(* one commit record; the new used_bytes is the old one plus the size of   *)
(* exactly these records.                                                  *)
C19_TransactionLayout ==
    [][(RanCreate /\ Ran.status = "ok") =>
          LET o0 == CreateHeader(jmagic, jused).nbytes_used
              o1 == o0 + SizeofDataRecord
              ob == o1 + SizeofDataRecord
              o2 == IF Ran.inode >= INODES_PER_BLOCK
                       THEN ob + SizeofDataRecord ELSE ob
              o3 == o2 + SizeofDataRecord
          IN /\ DataFor(jarea', o0, sb.inode_bitmap)
             /\ DataFor(jarea', o1, sb.inode_start)
             /\ Ran.inode >= INODES_PER_BLOCK
                   => DataFor(jarea', ob, sb.inode_start + 1)
             /\ DataFor(jarea', o2, InodeOf(disk, 0).direct[0])
             /\ CommitAt(jarea', o3)
             /\ {o \in DOMAIN jarea' : o >= o0 /\ o < jused'}
                   = {o0, o1, ob, o2, o3}
             /\ jused' = o3 + SizeofCommitRecord
             /\ jmagic' = JOURNAL_MAGIC]_vars

(* a create that took inode 32 or above is the last in the log, behind at *)
(* least one more transaction, and logged both inode-table blocks          *)
C19_Witness ==
    /\ hist # <<>>
    /\ hist[Len(hist)].op = "create"
    /\ hist[Len(hist)].status = "ok"
    /\ hist[Len(hist)].inode >= INODES_PER_BLOCK
    /\ jmagic = JOURNAL_MAGIC
    /\ jused > SizeofJournalHeader + 4 * SizeofDataRecord + SizeofCommitRecord
    /\ DataFor(jarea, jused - SizeofCommitRecord - 3 * SizeofDataRecord,
               sb.inode_start)
    /\ DataFor(jarea, jused - SizeofCommitRecord - 2 * SizeofDataRecord,
               sb.inode_start + 1)

(* n untorn data records lie back to back from off *)
RECURSIVE DataRun(_, _, _)
DataRun(area, off, n) ==
    \/ n = 0
    \/ /\ off \in DOMAIN area
       /\ area[off].type = REC_DATA
       /\ area[off].size = SizeofDataRecord
       /\ ~area[off].torn
       /\ DataRun(area, off + SizeofDataRecord, n - 1)

(* the bytes in [off, used) are complete transactions, each 3 or 4 data    *)
(* records and the commit record right behind them                         *)
RECURSIVE Transactions(_, _, _)
Transactions(area, off, used) ==
    \/ off = used
    \/ \E n \in {3, 4} :
          LET c == off + n * SizeofDataRecord
          IN /\ c + SizeofCommitRecord <= used
             /\ DataRun(area, off, n)
             /\ CommitAt(area, c)
             /\ {o \in DOMAIN area : o >= off /\ o < c + SizeofCommitRecord}
                   = {off + k * SizeofDataRecord : k \in 0..n}
             /\ Transactions(area, c + SizeofCommitRecord, used)

(* C20: the used region is always well formed.  In every state reached by  *)
(* creates, installs and crashes between two writes, all issued writes     *)
(* succeeding, the bytes from the header size to used_bytes are zero or    *)
(* more complete transactions, each 3 or 4 data records and one commit     *)
(* record right behind them; no dangling run and no stale record lies      *)
(* inside the used region.                                                 *)
C20_UsedRegionWellFormed ==
    jmagic = JOURNAL_MAGIC =>
        /\ jused >= SizeofJournalHeader
        /\ Transactions(jarea, SizeofJournalHeader, jused)

(* a create died after some of its records were written: the dangling run  *)
(* lies behind a used region that holds transactions                       *)
C20_Witness ==
    /\ Crashed("create")
    /\ last.wrote >= 1
    /\ jmagic = JOURNAL_MAGIC
    /\ jused > SizeofJournalHeader
    /\ \E o \in DOMAIN jarea : o >= jused /\ jarea[o].type = REC_DATA

(* the data records a scan of the first used bytes decodes, by offset *)
DecodedAt(area, used, heap) ==
    LET s == scan(journal_data(area, used, heap), used, SizeofJournalHeader,
                  <<>>, <<>>, 0)
        ws == s.writes \o s.pending
    IN {ws[i].src : i \in 1..Len(ws)}

(* C21: safe record decoding.  Whatever the records of the used region     *)
(* and their length fields, install takes a block number and a payload     *)
(* from a data record only when the whole record, header, block number and *)
(* one block of payload, lies below used_bytes; it reads no byte at or     *)
(* behind used_bytes as record content.                                    *)
C21_SafeDecoding ==
    [][(RanInstall /\ jmagic = JOURNAL_MAGIC /\ jused > SizeofJournalHeader) =>
          \A heap \in HeapFor(jarea, jused) :
          \A o \in DecodedAt(jarea, jused, heap) :
              o + SizeofDataRecord <= jused]_vars

(* what the code does: a data record is decoded as soon as the length its  *)
(* header gives lies below used_bytes                                      *)
C21_AsCoded ==
    [][(RanInstall /\ jmagic = JOURNAL_MAGIC /\ jused > SizeofJournalHeader) =>
          \A heap \in HeapFor(jarea, jused) :
          \A o \in DecodedAt(jarea, jused, heap) :
              o + jarea[o].size <= jused]_vars

(* the data records of a log that a commit record follows, in log order *)
CommittedData(recs) ==
    SelectSeq(SubSeq(recs, 1, LastCommit(recs)), LAMBDA r : r.type = REC_DATA)

(* the block writes among the writes of an install *)
BlockWrites(ws) == SelectSeq(ws, LAMBDA w : w.kind = "blk")

(* C22: no silent truncation of a transaction.  For every log whose        *)
(* used_bytes is at most the journal capacity, install writes every data   *)
(* record that a commit record of the same run follows to its block when   *)
(* the commit is reached: none is dropped because the 16 entries of the    *)
(* pending-write buffer are taken.                                         *)
C22_NoSilentTruncation ==
    [][(RanInstall /\ jmagic = JOURNAL_MAGIC /\ jused > SizeofJournalHeader
          /\ jused <= SpaceAvailable) =>
          \A heap \in HeapFor(jarea, jused) :
             LET ws == BlockWrites(journal_install(jmagic, jused,
                           journal_data(jarea, jused, heap)).writes)
                 cd == CommittedData(given.recs)
             IN /\ Len(ws) = Len(cd)
                /\ \A i \in 1..Len(cd) :
                      /\ ws[i].block_no = cd[i].block_no
                      /\ ws[i].data = cd[i].data
                /\ \A i \in 1..Len(cd) :
                      (\A j \in (i + 1)..Len(cd) : cd[j].block_no # cd[i].block_no)
                          => disk'[cd[i].block_no] = cd[i].data]_vars

(* the longest run the journal can hold, fifteen data records and their    *)
(* commit record, has been installed: the last record of the run is on     *)
(* its block                                                               *)
C22_Witness ==
    /\ hist # <<>>
    /\ hist[Len(hist)].op = "install"
    /\ given.used <= SpaceAvailable
    /\ Len(given.recs) >= PendingMax
    /\ \A i \in 1..(PendingMax - 1) : given.recs[i].type = REC_DATA
    /\ given.recs[PendingMax] = CommitRec
    /\ disk[given.recs[PendingMax - 1].block_no] = given.recs[PendingMax - 1].data
    /\ disk[given.recs[PendingMax - 2].block_no] = given.recs[PendingMax - 2].data

(* every command so far was a successful create or the install after it *)
CreateInstallPairs ==
    /\ FreshStart
    /\ pc = "idle"
    /\ Len(hist) = nops
    /\ nops > 0
    /\ nops % 2 = 0
    /\ \A k \in 1..Len(hist) :
          IF k % 2 = 1
              THEN hist[k].op = "create" /\ hist[k].status = "ok"
              ELSE hist[k].op = "install" /\ hist[k].status = "ok"

(* the occupied slots of the root directory that reference inode i *)
SlotsOf(d, i) ==
    {s \in SlotIdx :
        Occupied(RootDirents(d), s) /\ DirentAt(RootDirents(d), s).inode = i}

NoOrphans(d) ==
    /\ \A i \in d[sb.inode_bitmap].bits \ {0} : Cardinality(SlotsOf(d, i)) = 1
    /\ \A s \in SlotIdx :
          (/\ Occupied(RootDirents(d), s)
           /\ DirentAt(RootDirents(d), s).name \notin {NameDot, NameDotDot})
              => /\ DirentAt(RootDirents(d), s).inode \in d[sb.inode_bitmap].bits
                 /\ InodeOf(d, DirentAt(RootDirents(d), s).inode).type = INODE_FILE

(* C23: no orphan inodes.  From a fresh image, after successful creates,   *)
(* of any accepted name of 0 to 27 bytes, each followed by install, every  *)
(* allocated inode but inode 0 is referenced by exactly one occupied slot  *)
(* of the root directory, and every occupied slot but "." and ".."         *)
(* references an allocated inode that is a file.                           *)
C23_NoOrphanInodes == CreateInstallPairs => NoOrphans(disk)

(* the same when no create was given the empty name *)
C23_NonEmptyNames ==
    (CreateInstallPairs /\ \A k \in 1..Len(hist) : hist[k].op = "create" => hist[k].name # NameEmpty)
        => NoOrphans(disk)

(* the create of a step got past the checks of the name and of the room    *)
(* in the journal                                                          *)
ReachedAllocation ==
    /\ RanCreate
    /\ ~NameTooLong(Ran.name)
    /\ ~JournalFull(CreateHeader(jmagic, jused).nbytes_used)

(* the indices from 1 whose bit is clear *)
ClearBits(d) == {i \in 1..(MAX_INODES - 1) : i \notin d[sb.inode_bitmap].bits}

(* C24: findFreeInode.  For every 64-bit inode bitmap the inode a create   *)
(* takes is the lowest index in 1..63 whose bit is clear, never index 0    *)
(* even when its bit is clear, and the create fails with NoFreeInodes      *)
(* exactly when bits 1..63 are all set; the byte-skipping search of        *)
(* journal.c and the linear search of journal copy.c return the same       *)
(* result for every bitmap.                                                *)
C24_FindFreeInode ==
    [][ReachedAllocation =>
          /\ (Ran.status = "NoFreeInodes") <=> (ClearBits(disk) = {})
          /\ Ran.status \in {"ok", "AlreadyExists", "DirectoryFull"}
                => ClearBits(disk) # {}
          /\ Ran.status = "ok" => Ran.inode = SetMin(ClearBits(disk))
          /\ Ran.inode # 0
          /\ find_free_inode(disk[sb.inode_bitmap].bits)
                = find_free_inode_copy(disk[sb.inode_bitmap].bits)]_vars

(* creates have run on a bitmap whose bit 0 is clear and whose first byte  *)
(* is otherwise full: one took an inode of a later byte, and both          *)
(* programs have been run                                                  *)
C24_Witness ==
    /\ hist # <<>>
    /\ hist[Len(hist)].op = "create"
    /\ hist[Len(hist)].status = "ok"
    /\ hist[Len(hist)].inode >= 8
    /\ 0 \notin disk[sb.inode_bitmap].bits
    /\ 1..7 \subseteq disk[sb.inode_bitmap].bits
    /\ prog = "copy"

(* the create of a step got as far as the search of the root directory *)
ReachedDirectory == ReachedAllocation /\ ClearBits(disk) # {}

OccupiedSlots(d) == {s \in SlotIdx : Occupied(RootDirents(d), s)}
NameTaken(d, name) ==
    \E s \in OccupiedSlots(d) : DirentAt(RootDirents(d), s).name = name

HighestOccupied(ents) ==
    SetMax({s \in SlotIdx : DirentAt(ents, s).name # <<>>})

(* C26: derived directory size.  In the image of inode-table block 0 that  *)
(* every successful create logs, and so on disk after install, the size of *)
(* inode 0 is (h + 1) x 32 for h the highest occupied slot of the logged   *)
(* root directory block; every other field of inode 0 is as in the         *)
(* snapshot.                                                               *)
C26_DerivedDirectorySize ==
    [][/\ (RanCreate /\ Ran.status = "ok") =>
             LET logged == InodeAt(LoggedFor(sb.inode_start).ino, 0)
                 h == HighestOccupied(LoggedFor(InodeOf(disk, 0).direct[0]).ents)
             IN /\ logged.size = (h + 1) * SizeofDirent
                /\ [logged EXCEPT !.size = InodeOf(disk, 0).size]
                      = InodeOf(disk, 0)
       /\ (RanInstall /\ Ran.transactions > 0) =>
             /\ InodeOf(disk', 0).size
                   = (HighestOccupied(RootDirents(disk')) + 1) * SizeofDirent
             /\ [InodeOf(disk', 0) EXCEPT !.size = InodeOf(disk, 0).size]
                   = InodeOf(disk, 0)]_vars

(* a create that filled a slot below the highest occupied one has been     *)
(* installed: the size is that of all 128 slots, and the directory has an  *)
(* empty slot left                                                         *)
C26_Witness ==
    /\ Len(hist) >= 2
    /\ hist[Len(hist) - 1].op = "create"
    /\ hist[Len(hist) - 1].status = "ok"
    /\ hist[Len(hist) - 1].slot < MAX_DIRENTS - 1
    /\ hist[Len(hist)].op = "install"
    /\ hist[Len(hist)].transactions = 1
    /\ InodeOf(disk, 0).size = MAX_DIRENTS * SizeofDirent
    /\ OccupiedSlots(disk) # SlotIdx
    /\ hist[Len(hist) - 1].slot \in OccupiedSlots(disk)

(* offset + size is at most the bytes of the journal, the two taken as     *)
(* unsigned words                                                          *)
InSpan(io) ==
    /\ io.offset >= 0
    /\ io.size >= 0
    /\ io.offset <= SpaceAvailable
    /\ io.size <= SpaceAvailable - io.offset

AllInSpan(ios) == \A i \in 1..Len(ios) : InSpan(ios[i])

(* the journal reads and writes of the command a step runs *)
CreateIOsInSpan ==
    AllInSpan(create_journal_io(
                  journal_create(disk, jmagic, jused, Ran.name, Now), Ran.name))
InstallIOsInSpan ==
    \A malloc_ok \in MallocChoices(jused) :
        AllInSpan(install_journal_io(jmagic, jused, malloc_ok))

(* C27: journal I/O stays in the journal span.  For every header with a    *)
(* valid magic and any 32-bit used_bytes, above the capacity and near 2^32 *)
(* where used_bytes plus the space required wraps around included, every   *)
(* journal read and write of create and install has offset + length at     *)
(* most journal_blocks x block_size, 65536.                                *)
C27_JournalIOInSpan ==
    [][/\ RanCreate => CreateIOsInSpan
       /\ RanInstall => InstallIOsInSpan]_vars

(* the same for the headers whose used_bytes is from 8 to 65536 *)
C27_WithinCapacity ==
    [][(jused >= SizeofJournalHeader /\ jused <= SpaceAvailable) =>
          /\ RanCreate => CreateIOsInSpan
          /\ RanInstall => InstallIOsInSpan]_vars

(* install alone, and create alone, for any used_bytes *)
C27_InstallInSpan == [][RanInstall => InstallIOsInSpan]_vars
C27_CreateInSpan == [][RanCreate => CreateIOsInSpan]_vars

(* C28: install terminates.  For every journal header and every content of *)
(* the used region, whatever its tags and length fields, the scan of       *)
(* install ends after finitely many iterations, because each iteration     *)
(* either stops the scan or advances the offset by a positive amount, and  *)
(* install then reaches the header reset.                                  *)
C28_IterationAdvances ==
    [][pc = "scan" =>
          \/ pc' = "reset"
          \/ U32Lt(sc.offset, sc'.offset)]_vars

(* an install that has entered its loop comes to the header reset *)
C28_ReachesReset ==
    (pc = "scan") ~> (pc = "idle" /\ jused = SizeofJournalHeader)

(* the offset advances in every iteration of a scan of a log that lies     *)
(* inside the 16 journal blocks                                            *)
C28_WithinCapacity ==
    [][(pc = "scan" /\ jused >= 0 /\ jused <= SpaceAvailable) =>
          \/ pc' = "reset"
          \/ U32Lt(sc.offset, sc'.offset)]_vars

====
